---- MODULE Spec2Model ----
(***************************************************************************)
(* DepthFlow API: the GPU resource manager (app/services/                  *)
(* gpu_resource_manager.py), the task executor process_image_task with its *)
(* retry/backoff handling (app/tasks/processing.py), the task table and    *)
(* cancel_task (app/api/routes.py) and the monitoring service              *)
(* (app/services/monitoring.py).                                           *)
(*                                                                         *)
(* Scheduling: one asyncio event loop runs every process_image_task        *)
(* coroutine and every request handler.  A coroutine may be suspended at   *)
(* an await (lock acquisition, accelerator probe, file validation,         *)
(* Renderer call, webhook call, backoff sleep); the code between two       *)
(* awaits is one action.  Each "async with self._lock" block is one        *)
(* action: the lock makes the block atomic with respect to every other     *)
(* block that takes the same lock, and active_tasks is written only        *)
(* inside such blocks.                                                     *)
(*                                                                         *)
(* Strings: a message is a sequence of tokens.  A token written "zh:..."   *)
(* stands for the Chinese text of the source line named beside it (given   *)
(* here by its English meaning); every other token is the ASCII text of    *)
(* the source.  "Contains" is token membership, str.lower() maps each      *)
(* token to its lower-case form.                                           *)
(***************************************************************************)
EXTENDS Integers, Sequences, FiniteSets, TLC

(***************************************************************************)
(* Bounds of the model                                                     *)
(***************************************************************************)
Tasks == {"t1", "t2"}          \* task ids that may be submitted
MaxCapacity == 2               \* max_concurrent_tasks ranges over 1..MaxCapacity
MaxGpuChanges == 1             \* times the accelerator's condition changes in a run
MaxFaults == 1                 \* validation and Renderer failures in a run of SpecConcurrent
MaxMsgLen == 2                 \* tokens in an error message of SpecPure
MaxCalls == 2                  \* calls of should_retry_error in a run of SpecPure
MaxRetryCount == 5             \* consecutive retries in a run of SpecPure
MaxMetricsHistory == 2         \* MonitoringService(max_metrics_history = ...)
MaxErrorHistory == 2           \* MonitoringService(max_error_history = ...)
MaxTasks == 10                 \* total_tasks and failed_tasks in SpecHealth
MaxLoops == 2                  \* loop tasks of each kind created in SpecMonitor
MaxRecorded == 3               \* samples (and error events) recorded in a run of SpecRecorder
Hours == 0..1                  \* the hours the clock of SpecRecorder goes through

(***************************************************************************)
(* Program constants                                                       *)
(***************************************************************************)
DefaultMaxRetries == 3         \* task.get('max_retries', 3)
MemoryThresholdPercent == 80   \* memory_threshold = 0.8, as a percentage
BackoffBase == 60              \* 60 * 2 ** (retry_count - 1)
BackoffCap == 300              \* min(..., 300)
CriticalTenths == 5            \* failure_rate > 0.5, in tenths
WarningTenths == 2             \* failure_rate > 0.2, in tenths
CacheSeconds == 30             \* (now - self._last_gpu_check).total_seconds() > 30
HoursPerDay == 24              \* timedelta(days = days), the clock counts hours
RateWindowLen == 100           \* deque(maxlen = 100): error_rates, processing_times
max_upload_size == 10485760    \* settings.max_upload_size

VARIABLES
    \* GPUResourceManager
    max_concurrent_tasks,      \* self.max_concurrent_tasks
    active_tasks,              \* self.active_tasks
    \* the accelerator, as get_gpu_status would read it now
    gpu_status,
    gpu_changes,
    faults,                    \* validation and Renderer failures so far
    \* routes.tasks_db: task id -> task record
    tasks_db,
    \* process_image_task, per task id
    pc,                        \* position of the innermost invocation
    frames,                    \* invocations started and not yet returned
    success,                   \* process_image_task's local success
    delay,                     \* process_image_task's local delay
    \* MonitoringService counters touched by the executor
    task_stats,
    counters,
    \* history of each task (observation only, never read by the program)
    hist,
    \* SpecPure: should_retry_error and the backoff delay on their own
    cl_error,                  \* the error message classified
    cl_verdicts,               \* the verdict of each call, in call order
    bk_retry_count,            \* retry_count of one task
    bk_delays,                 \* the delay computed at each retry, in order
    \* SpecRecorder: one MonitoringService object and the wall clock
    ms,
    now,
    ret,                       \* what the latest call on the service returned
    \* SpecApi: the response of the latest request
    resp,
    \* GPUResourceManager.is_gpu_available's cache
    gpu_available,             \* self._gpu_available
    last_gpu_check,            \* self._last_gpu_check
    probe,                     \* observation of the latest is_gpu_available
    \* HealthMonitor
    running,                   \* self.running
    monitoring_loops,          \* position of each _monitoring_loop task
    cleanup_loops,             \* position of each _cleanup_loop task
    monitor_calls,             \* observation of the calls on the supervisor
    health_status,             \* the HealthStatus of the latest health check
    cycle,                     \* observation of the latest health check
    last_cleanup,              \* self.last_cleanup
    files,                     \* the files under uploads/ and outputs/
    cleanup_run,               \* observation of the latest cleanup run
    \* performance_monitor: the wrapper invocations that have not returned
    invocations

mainVars == <<max_concurrent_tasks, active_tasks, gpu_status, gpu_changes,
              faults, tasks_db, pc, frames, success, delay,
              task_stats, counters, hist>>

pureVars == <<cl_error, cl_verdicts, bk_retry_count, bk_delays>>

recVars == <<ms, now, ret>>

probeVars == <<gpu_available, last_gpu_check, probe>>

monVars == <<running, monitoring_loops, cleanup_loops, monitor_calls>>

opsVars == <<health_status, cycle, last_cleanup, files, cleanup_run,
             invocations>>

svcVars == <<probeVars, monVars, opsVars>>

\* the variables the executor's actions leave alone
auxVars == <<pureVars, recVars, resp, svcVars>>

vars == <<mainVars, pureVars, recVars, resp, svcVars>>

\* Python's None; a variable that may hold None holds <<v>> for a value v
None == << >>

(***************************************************************************)
(* should_retry_error                                                      *)
(***************************************************************************)
\* (mutant of non_retryable_errors: the invalid-image keyword is missing)
non_retryable_errors_without_invalid_image ==
    <<"zh:unsupported file format", "zh:corrupt file",
      "parameter_validation_error", "invalid_file_format", "file_too_large">>

non_retryable_errors ==
    <<"zh:invalid image file", "zh:unsupported file format", "zh:corrupt file",
      "parameter_validation_error", "invalid_file_format", "file_too_large">>

retryable_errors ==
    <<"gpu", "memory", "timeout", "connection", "temporary",
      "zh:resource exhausted", "zh:server busy", "processing failed">>

\* str.lower() on one token
LowerToken(tok) ==
    CASE tok = "GPU" -> "gpu"
      [] tok = "DepthFlow" -> "depthflow"
      [] tok = "Memory" -> "memory"
      [] tok = "INVALID_FILE_FORMAT" -> "invalid_file_format"
      [] OTHER -> tok

\* str(error).lower()
Lower(msg) == [i \in DOMAIN msg |-> LowerToken(msg[i])]

\* the Python test "needle in haystack"
Contains(haystack, needle) == \E i \in DOMAIN haystack : haystack[i] = needle

RECURSIVE FirstMatch(_, _, _)
\* the index of the first keyword of list kws (from index i on) found in
\* error_str, 0 when none is: the for loops of should_retry_error
FirstMatch(kws, error_str, i) ==
    IF i > Len(kws) THEN 0
    ELSE IF Contains(error_str, kws[i]) THEN i
    ELSE FirstMatch(kws, error_str, i + 1)

\* (mutant of should_retry_error: the retryable keywords are tested first)
should_retry_error_retryable_first(error) ==
    LET error_str == Lower(error)
    IN  IF FirstMatch(retryable_errors, error_str, 1) # 0 THEN TRUE
        ELSE IF FirstMatch(non_retryable_errors, error_str, 1) # 0 THEN FALSE
        ELSE TRUE

\* should_retry_error(error), error given by its message
should_retry_error(error) ==
    LET error_str == Lower(error)
    IN  IF FirstMatch(non_retryable_errors, error_str, 1) # 0 THEN FALSE
        ELSE IF FirstMatch(retryable_errors, error_str, 1) # 0 THEN TRUE
        ELSE TRUE

(***************************************************************************)
(* The messages the executor raises                                        *)
(***************************************************************************)
MsgInvalidImage == <<"zh:invalid image file">>                \* processing.py:105
MsgRenderFailed == <<"DepthFlow", "zh:processing failed">>    \* processing.py:163
ReasonCapacity == <<"zh:max concurrent tasks reached">>       \* gpu_resource_manager.py:126
ReasonUnavailable == <<"GPU", "zh:unavailable">>              \* gpu_resource_manager.py:136
ReasonMemory == <<"GPU", "zh:memory insufficient">>           \* gpu_resource_manager.py:143
\* (mutant of MsgAcquire: the reason is left out of the message)
MsgAcquireNoReason(reason) == <<"zh:cannot acquire", "GPU", "zh:slot">>

MsgAcquire(reason) == <<"zh:cannot acquire", "GPU", "zh:slot">> \o reason  \* :159

(***************************************************************************)
(* Backoff                                                                 *)
(***************************************************************************)
Min(a, b) == IF a < b THEN a ELSE b

\* (mutant of RetryDelay: the exponent is retry_count)
RetryDelayFromZero(retry_count) == Min(BackoffBase * (2 ^ retry_count), BackoffCap)

\* delay = min(60 * (2 ** (retry_count - 1)), 300)
RetryDelay(retry_count) == Min(BackoffBase * (2 ^ (retry_count - 1)), BackoffCap)

(***************************************************************************)
(* Accelerator status                                                      *)
(***************************************************************************)
MemoryPercents == {79, 80, 95}

\* GPUStatus(): available False and memory_percent 0.0 when no accelerator
GPUStatus ==
    {[available |-> FALSE, memory_percent |-> 0]} \cup
    {[available |-> TRUE, memory_percent |-> p] : p \in MemoryPercents}

\* (mutant of check_gpu_memory: the threshold itself counts as available)
check_gpu_memory_inclusive(status) ==
    IF ~status.available
    THEN [available |-> FALSE, memory_percent |-> 0, memory_available |-> FALSE]
    ELSE [available |-> TRUE,
          memory_percent |-> status.memory_percent,
          memory_available |-> status.memory_percent <= MemoryThresholdPercent]

\* check_gpu_memory: the dictionary built from a status
check_gpu_memory(status) ==
    IF ~status.available
    THEN [available |-> FALSE, memory_percent |-> 0, memory_available |-> FALSE]
    ELSE [available |-> TRUE,
          memory_percent |-> status.memory_percent,
          \* memory_percent / 100 < memory_threshold
          memory_available |-> status.memory_percent < MemoryThresholdPercent]

NoReason == <<>>
NoStatus == [available |-> FALSE, memory_percent |-> 0, memory_available |-> FALSE]

\* (mutant of can_process_task: the test of the concurrency limit is left out)
can_process_task_unlimited(active, capacity, status) ==
    LET g == check_gpu_memory(status)
    IN  IF ~g.available
        THEN [can_process |-> FALSE, reason |-> ReasonUnavailable,
              probed |-> TRUE, gpu_status |-> g]
        ELSE IF ~g.memory_available
        THEN [can_process |-> FALSE, reason |-> ReasonMemory,
              probed |-> TRUE, gpu_status |-> g]
        ELSE [can_process |-> TRUE, reason |-> NoReason,
              probed |-> TRUE, gpu_status |-> g]

\* can_process_task, the value it returns for the given counter and probe
can_process_task(active, capacity, status) ==
    IF active >= capacity
    THEN [can_process |-> FALSE, reason |-> ReasonCapacity,
          probed |-> FALSE, gpu_status |-> NoStatus]
    ELSE LET g == check_gpu_memory(status)
         IN  IF ~g.available
             THEN [can_process |-> FALSE, reason |-> ReasonUnavailable,
                   probed |-> TRUE, gpu_status |-> g]
             ELSE IF ~g.memory_available
             THEN [can_process |-> FALSE, reason |-> ReasonMemory,
                   probed |-> TRUE, gpu_status |-> g]
             ELSE [can_process |-> TRUE, reason |-> NoReason,
                   probed |-> TRUE, gpu_status |-> g]

(***************************************************************************)
(* Task records and the executor's bookkeeping                             *)
(***************************************************************************)
\* routes.process_image: the record stored in tasks_db.  The record holds no
\* retry_count, max_retries or retry_history key; the executor reads them
\* with the defaults 0, 3 and [] (task.get).
NewTask(webhook_url) ==
    [status |-> "pending", progress |-> 0, retry_count |-> 0,
     retry_history |-> <<>>, result_path |-> "none", error_message |-> <<>>,
     webhook_url |-> webhook_url]

NoHist == [attempts |-> 0, render_calls |-> 0, render_fails |-> 0,
           rejections |-> 0, failed_count |-> 0, cancelled |-> FALSE,
           webhook_posts |-> << >>, progress_writes |-> << >>]

\* self.active_tasks += 1
Acquired(active) == active + 1

\* (mutant of Released: the slot is not given back)
ReleasedNot(active) == active

\* self.active_tasks -= 1
Released(active) == active - 1

\* (mutant of WillRetry: the retry limit is off by one)
WillRetryOnceMore(task, e) ==
    task.retry_count <= DefaultMaxRetries /\ should_retry_error(e)

\* if retry_count < max_retries and should_retry_error(e)
WillRetry(task, e) ==
    task.retry_count < DefaultMaxRetries /\ should_retry_error(e)

\* (mutant of RetryRecord: the entry carries the retry_count before the
\* increment)
RetryRecordOldAttempt(task, e) ==
    [task EXCEPT !.retry_count = task.retry_count + 1,
                 !.status = "pending",
                 !.retry_history =
                     Append(@, [attempt |-> task.retry_count, error |-> e])]

\* (mutant of RetryRecord: the retry is not entered in retry_history)
RetryRecordNoHistory(task, e) ==
    [task EXCEPT !.retry_count = task.retry_count + 1, !.status = "pending"]

\* the retry branch's writes to the task record
RetryRecord(task, e) ==
    [task EXCEPT !.retry_count = task.retry_count + 1,
                 !.status = "pending",
                 !.retry_history =
                     Append(@, [attempt |-> task.retry_count + 1, error |-> e])]

\* (mutant of FailedRecord: error_message is not written)
FailedRecordNoMessage(task, e) ==
    [task EXCEPT !.status = "failed"]

\* the final-failure branch's writes to the task record
FailedRecord(task, e) ==
    [task EXCEPT !.status = "failed", !.error_message = e]

\* the success branch's writes to the task record
CompletedRecord(task) ==
    [task EXCEPT !.status = "completed", !.progress = 100,
                 !.result_path = "output"]

\* cleanup_task_files: os.listdir of the upload and output directories, then
\* os.remove of the task's files.  A failing os.remove is caught and logged;
\* os.listdir is outside every try.
CleanupOutcomes == {"removed", "remove failed", "listdir raised"}

\* where process_image_task is after "file_handler.cleanup_task_files(task_id)",
\* the last statement of its except block: returned ("done"), or left by the
\* exception of os.listdir, which unwinds every nested invocation and each
\* performance_monitor wrapper (stop_timer, record_error, re-raise) and
\* reaches the caller ("raised")
AfterCleanup(outcome) ==
    IF outcome = "listdir raised" THEN "raised" ELSE "done"

\* (mutant of StatsAfterRetry: record_error is called without the task id)
StatsAfterRetryNoTaskId(stats) ==
    [stats EXCEPT !.retried_tasks = @ + 1]

\* (mutant of StatsAfterRetry: record_task_retry leaves retried_tasks alone)
StatsAfterRetryUncounted(stats) ==
    [stats EXCEPT !.failed_tasks = @ + 1]

\* task_stats after record_error(e, task_id, ...) and
\* record_task_retry(task_id, retry_count)
StatsAfterRetry(stats) ==
    [stats EXCEPT !.failed_tasks = @ + 1, !.retried_tasks = @ + 1]

\* The except block of process_image_task, entered with exception e while the
\* task record is task and the task's history is h: record_error, then either
\* the retry branch up to "await asyncio.sleep(delay)" or the final failure,
\* after which every nested invocation returns or is unwound.
HandleException(t, task, e, h) ==
    IF WillRetry(task, e)
    THEN /\ tasks_db' = [tasks_db EXCEPT ![t] = RetryRecord(task, e)]
         /\ task_stats' = StatsAfterRetry(task_stats)
         /\ counters' = [counters EXCEPT !.task_retry_count = @ + 1]
         /\ delay' = [delay EXCEPT ![t] = RetryDelay(task.retry_count + 1)]
         /\ pc' = [pc EXCEPT ![t] = "backoff"]
         /\ frames' = frames
         /\ hist' = [hist EXCEPT ![t] = h]
    ELSE /\ tasks_db' = [tasks_db EXCEPT ![t] = FailedRecord(task, e)]
         /\ task_stats' = [task_stats EXCEPT !.failed_tasks = @ + 1]
         /\ counters' = [counters EXCEPT !.task_failed_count = @ + 1]
         /\ delay' = delay
         /\ \E outcome \in CleanupOutcomes :
                pc' = [pc EXCEPT ![t] = AfterCleanup(outcome)]
         /\ frames' = [frames EXCEPT ![t] = 0]
         /\ hist' = [hist EXCEPT ![t] = [h EXCEPT !.failed_count = @ + 1]]

(***************************************************************************)
(* Initial state                                                           *)
(***************************************************************************)
\* the response of the latest request: the handler, the task id it concerns,
\* the error of the HTTPException it raised ("" when it returned normally),
\* the status it returned, the request's parameters and file name, and the
\* parity of the number of requests answered so far
NoResponse ==
    [op |-> "none", task_id |-> "", error |-> "", status |-> "",
     request |-> "", filename |-> << >>, parity |-> 0]

\* no is_gpu_available call made yet.  queried: the latest call called
\* get_gpu_status; outcome: what torch did then; leases: the slots acquired
\* up to the latest call; since: those acquired between the call before it
\* and the latest; parity: of the number of calls
NoProbe ==
    [queried |-> FALSE, outcome |-> "", leases |-> 0, since |-> 0,
     parity |-> 0]

\* no call made on the HealthMonitor yet.  last_start: what the latest
\* start_monitoring did; stops: the stop_monitoring calls that found the
\* supervisor running; last_cycle: the latest health check or cleanup run
\* to end, and how it ended
NoCalls == [last_start |-> "none", stops |-> 0, last_cycle |-> << >>]

\* no health check made yet.  checks: parity of the number of health
\* checks; determined: _determine_overall_status has set the overall status
\* of health_status; disk_percent: the disk reading of the latest check;
\* force_cleanups: the force_cleanup calls made in and since that check
NoCycle ==
    [checks |-> 0, determined |-> FALSE, disk_percent |-> 0,
     force_cleanups |-> 0]

\* no cleanup run made yet.  runs: parity of the number of runs; at: when
\* the latest began; since: last_cleanup as it was then; before: the files
\* as they were then; force_cleanups: the force_cleanup calls it made
NoRun ==
    [runs |-> 0, at |-> 0, since |-> 0, before |-> << >>,
     force_cleanups |-> 0]

\* HealthStatus as the dataclass constructs it (health_monitor.py 19-32)
NewHealthStatus ==
    [overall_status |-> "healthy", cpu_usage |-> 0, memory_usage |-> 0,
     gpu_available |-> FALSE, gpu_memory_usage |-> 0,
     gpu_temperature |-> None, issues |-> << >>]

\* no health check made and neither directory holds a file
InitHostIdle ==
    /\ health_status = NewHealthStatus
    /\ files = << >>

\* the executor side before any submission, for a given capacity and
\* accelerator condition, and no request made yet
InitExecutor(capacity, status) ==
    /\ resp = NoResponse
    /\ max_concurrent_tasks = capacity
    /\ active_tasks = 0
    /\ gpu_status = status
    /\ gpu_changes = 0
    /\ faults = 0
    /\ tasks_db = << >>
    /\ pc = [t \in Tasks |-> "none"]
    /\ frames = [t \in Tasks |-> 0]
    /\ success = [t \in Tasks |-> FALSE]
    /\ delay = [t \in Tasks |-> 0]
    /\ task_stats = [total_tasks |-> 0, completed_tasks |-> 0,
                     failed_tasks |-> 0, retried_tasks |-> 0]
    /\ counters = [task_started_count |-> 0, task_completed_count |-> 0,
                   task_retry_count |-> 0, task_failed_count |-> 0]
    /\ hist = [t \in Tasks |-> NoHist]
    /\ gpu_available = None
    /\ last_gpu_check = None
    /\ probe = NoProbe
    /\ running = FALSE
    /\ monitoring_loops = << >>
    /\ cleanup_loops = << >>
    /\ monitor_calls = NoCalls
    /\ cycle = NoCycle
    /\ last_cleanup = 0
    /\ cleanup_run = NoRun
    /\ invocations = [t \in Tasks |-> << >>]

(***************************************************************************)
(* should_retry_error and the backoff delay on their own (SpecPure)        *)
(***************************************************************************)
\* tokens of the error messages tried: keywords of both lists, in lower and
\* upper case, and tokens that are no keyword
Alphabet ==
    {"zh:invalid image file", "file_too_large", "INVALID_FILE_FORMAT",
     "gpu", "GPU", "timeout", "zh:server busy", "DepthFlow",
     "zh:processing failed"}

Messages == UNION {[1..n -> Alphabet] : n \in 0..MaxMsgLen}

InitPureIdle ==
    /\ cl_error = << >>
    /\ cl_verdicts = << >>
    /\ bk_retry_count = 0
    /\ bk_delays = << >>

(***************************************************************************)
(* MonitoringService (SpecRecorder)                                        *)
(***************************************************************************)
\* the metric names ending in "_count" that the program records
CountNames ==
    {"task_started_count", "task_completed_count", "task_retry_count",
     "task_failed_count", "image_processing_success_count",
     "image_processing_error_count"}

\* the other metric names the program records
GaugeNames == {"task_processing_time", "image_processing_operation_duration"}

\* metric_name.endswith('_count')
EndsWithCount(metric_name) == metric_name \in CountNames

\* f"{timer_name}_duration"
DurationName(timer_name) ==
    CASE timer_name = "image_processing_operation"
             -> "image_processing_operation_duration"

TimerNames == {"image_processing_operation"}

\* type(error).__name__ of the errors recorded
ErrorTypes == {"Exception", "RuntimeError"}

\* (mutant of DequeAppend: the deque has no maxlen)
DequeAppendUnbounded(d, x, maxlen) == Append(d, x)

\* deque(maxlen = maxlen).append(x): a full deque drops its leftmost item
DequeAppend(d, x, maxlen) ==
    IF Len(d) < maxlen THEN Append(d, x) ELSE Append(Tail(d), x)

\* deque(items, maxlen = maxlen): the last maxlen items
DequeOf(items, maxlen) ==
    IF Len(items) <= maxlen THEN items
    ELSE SubSeq(items, Len(items) - maxlen + 1, Len(items))

RECURSIVE Sum(_)
\* sum(processing_times)
Sum(seq) == IF seq = << >> THEN 0 ELSE Head(seq) + Sum(Tail(seq))

\* MonitoringService.__init__
NewMonitoringService ==
    [metrics_history |-> << >>,
     error_history |-> << >>,
     counters |-> [n \in CountNames |-> 0],
     gauges |-> [n \in GaugeNames |-> 0],
     performance_timers |-> << >>,
     error_counts |-> [e \in ErrorTypes |-> 0],
     error_rates |-> [e \in ErrorTypes |-> << >>],
     task_stats |-> [total_tasks |-> 0, completed_tasks |-> 0,
                     failed_tasks |-> 0, retried_tasks |-> 0,
                     average_processing_time |-> [sum |-> 0, len |-> 1]],
     processing_times |-> << >>,
     \* observation only: how many samples and error events were ever
     \* appended; each appended entry carries its number as id
     metrics_recorded |-> 0,
     errors_recorded |-> 0]

\* record_metric at time ts
record_metric(m, metric_name, value, ts) ==
    LET metric == [id |-> m.metrics_recorded + 1, timestamp |-> ts,
                   metric_name |-> metric_name, value |-> value]
        m1 == [m EXCEPT !.metrics_history =
                            DequeAppend(@, metric, MaxMetricsHistory),
                        !.metrics_recorded = @ + 1]
    IN  IF EndsWithCount(metric_name)
        THEN [m1 EXCEPT !.counters[metric_name] = @ + value]
        ELSE [m1 EXCEPT !.gauges[metric_name] = value]

\* record_error at time ts; task_id is "" when none is given
record_error(m, error_type, task_id, ts) ==
    LET error_event == [id |-> m.errors_recorded + 1, timestamp |-> ts,
                        error_type |-> error_type, task_id |-> task_id]
        m1 == [m EXCEPT !.error_history =
                            DequeAppend(@, error_event, MaxErrorHistory),
                        !.errors_recorded = @ + 1,
                        !.error_counts[error_type] = @ + 1,
                        !.error_rates[error_type] =
                            DequeAppend(@, ts, RateWindowLen)]
    IN  IF task_id # ""
        THEN [m1 EXCEPT !.task_stats.failed_tasks = @ + 1]
        ELSE m1

\* start_timer at time ts
start_timer(m, timer_name, ts) ==
    [m EXCEPT !.performance_timers =
        [n \in DOMAIN m.performance_timers \cup {timer_name} |->
            IF n = timer_name THEN ts ELSE m.performance_timers[n]]]

\* stop_timer at time ts: the value it returns
stop_timer_return(m, timer_name, ts) ==
    IF timer_name \notin DOMAIN m.performance_timers
    THEN 0
    ELSE ts - m.performance_timers[timer_name]

\* (mutant of stop_timer: a stop without a start records a duration of 0)
stop_timer_records_zero(m, timer_name, ts) ==
    IF timer_name \notin DOMAIN m.performance_timers
    THEN record_metric(m, DurationName(timer_name), 0, ts)
    ELSE LET elapsed == ts - m.performance_timers[timer_name]
             m1 == [m EXCEPT !.performance_timers =
                       [n \in DOMAIN m.performance_timers \ {timer_name} |->
                           m.performance_timers[n]]]
         IN  record_metric(m1, DurationName(timer_name), elapsed, ts)

\* stop_timer at time ts: the service afterwards
stop_timer(m, timer_name, ts) ==
    IF timer_name \notin DOMAIN m.performance_timers
    THEN m
    ELSE LET elapsed == ts - m.performance_timers[timer_name]
             m1 == [m EXCEPT !.performance_timers =
                       [n \in DOMAIN m.performance_timers \ {timer_name} |->
                           m.performance_timers[n]]]
         IN  record_metric(m1, DurationName(timer_name), elapsed, ts)

\* (mutant of record_task_completed: the task is also counted in
\* total_tasks)
record_task_completed_counts_total(m, task_id, processing_time, ts) ==
    LET times == DequeAppend(m.processing_times, processing_time, RateWindowLen)
        m1 == [m EXCEPT !.task_stats.completed_tasks = @ + 1,
                        !.task_stats.total_tasks = @ + 1,
                        !.processing_times = times,
                        !.task_stats.average_processing_time =
                            [sum |-> Sum(times), len |-> Len(times)]]
        m2 == record_metric(m1, "task_processing_time", processing_time, ts)
    IN  record_metric(m2, "task_completed_count", 1, ts)

\* record_task_completed at time ts
record_task_completed(m, task_id, processing_time, ts) ==
    LET times == DequeAppend(m.processing_times, processing_time, RateWindowLen)
        m1 == [m EXCEPT !.task_stats.completed_tasks = @ + 1,
                        !.processing_times = times,
                        !.task_stats.average_processing_time =
                            [sum |-> Sum(times), len |-> Len(times)]]
        m2 == record_metric(m1, "task_processing_time", processing_time, ts)
    IN  record_metric(m2, "task_completed_count", 1, ts)

\* record_task_retry at time ts
record_task_retry(m, task_id, retry_count, ts) ==
    record_metric([m EXCEPT !.task_stats.retried_tasks = @ + 1],
                  "task_retry_count", 1, ts)

\* clear_old_data(days) at time ts
clear_old_data(m, days, ts) ==
    LET cutoff_time == ts - days * HoursPerDay
        Recent(e) == e.timestamp >= cutoff_time
        LastHour(t) == ts - t < 1
    IN  [m EXCEPT !.metrics_history =
                      DequeOf(SelectSeq(@, Recent), MaxMetricsHistory),
                  !.error_history =
                      DequeOf(SelectSeq(@, Recent), MaxErrorHistory),
                  !.error_rates =
                      [e \in ErrorTypes |->
                          DequeOf(SelectSeq(m.error_rates[e], LastHour),
                                  RateWindowLen)]]

InitRecorderIdle ==
    /\ ms = NewMonitoringService
    /\ now = 0
    /\ ret = None

Init ==
    /\ \E capacity \in 1..MaxCapacity, status \in GPUStatus :
           InitExecutor(capacity, status)
    /\ InitPureIdle
    /\ InitRecorderIdle
    /\ InitHostIdle

(***************************************************************************)
(* Actions                                                                 *)
(***************************************************************************)
\* routes.process_image: create the record and schedule process_image_task
Submit(t, webhook_url) ==
    /\ pc[t] = "none"
    /\ t \notin DOMAIN tasks_db
    /\ tasks_db' = [x \in DOMAIN tasks_db \cup {t} |->
                       IF x = t THEN NewTask(webhook_url) ELSE tasks_db[x]]
    /\ pc' = [pc EXCEPT ![t] = "start"]
    /\ UNCHANGED auxVars
    /\ UNCHANGED <<max_concurrent_tasks, active_tasks, gpu_status, gpu_changes,
                   faults, frames, success, delay, task_stats, counters, hist>>

\* routes.cancel_task on a task that is pending or processing
Cancel(t) ==
    /\ t \in DOMAIN tasks_db
    /\ tasks_db[t].status \notin {"completed", "failed", "cancelled"}
    /\ tasks_db' = [tasks_db EXCEPT ![t].status = "cancelled"]
    /\ hist' = [hist EXCEPT ![t].cancelled = TRUE]
    /\ UNCHANGED auxVars
    /\ UNCHANGED <<max_concurrent_tasks, active_tasks, gpu_status, gpu_changes,
                   faults, pc, frames, success, delay, task_stats, counters>>

\* the accelerator's condition changes (environment)
AcceleratorChanges ==
    /\ gpu_changes < MaxGpuChanges
    /\ gpu_changes' = gpu_changes + 1
    /\ gpu_status' \in GPUStatus \ {gpu_status}
    /\ UNCHANGED auxVars
    /\ UNCHANGED <<max_concurrent_tasks, active_tasks, faults, tasks_db, pc,
                   frames, success, delay, task_stats, counters, hist>>

\* process_image_task from its first line to "await validate_image"
Start(t) ==
    /\ pc[t] = "start"
    /\ t \in DOMAIN tasks_db
    /\ counters' = [counters EXCEPT !.task_started_count = @ + 1]
    /\ tasks_db' = [tasks_db EXCEPT ![t].status = "processing"]
    /\ frames' = [frames EXCEPT ![t] = @ + 1]
    /\ hist' = [hist EXCEPT ![t].attempts = @ + 1,
                            ![t].progress_writes = << >>]
    /\ pc' = [pc EXCEPT ![t] = "validating"]
    /\ UNCHANGED auxVars
    /\ UNCHANGED <<max_concurrent_tasks, active_tasks, gpu_status, gpu_changes,
                   faults, success, delay, task_stats>>

\* validate_image returns is_valid; on True the executor goes on to
\* update_progress(10) and enters acquire_gpu_slot
Validate(t, is_valid) ==
    /\ pc[t] = "validating"
    /\ IF is_valid
       THEN /\ tasks_db' = [tasks_db EXCEPT ![t].progress = 10]
            /\ hist' = [hist EXCEPT ![t].progress_writes = Append(@, 10)]
            /\ pc' = [pc EXCEPT ![t] = "check"]
            /\ UNCHANGED <<faults, frames, delay, task_stats, counters>>
       ELSE /\ faults' = faults + 1
            /\ HandleException(t, tasks_db[t], MsgInvalidImage, hist[t])
    /\ UNCHANGED auxVars
    /\ UNCHANGED <<max_concurrent_tasks, active_tasks, gpu_status, gpu_changes,
                   success>>

\* acquire_gpu_slot: "check_result = await self.can_process_task()" and, when
\* the slot is refused, the RuntimeError it raises
CanProcessTask(t) ==
    /\ pc[t] = "check"
    /\ LET check_result ==
               can_process_task(active_tasks, max_concurrent_tasks, gpu_status)
       IN  IF check_result.can_process
           THEN /\ pc' = [pc EXCEPT ![t] = "admitted"]
                /\ UNCHANGED <<tasks_db, frames, delay, task_stats, counters,
                               hist>>
           ELSE HandleException(t, tasks_db[t], MsgAcquire(check_result.reason),
                                [hist[t] EXCEPT !.rejections = @ + 1])
    /\ UNCHANGED auxVars
    /\ UNCHANGED <<max_concurrent_tasks, active_tasks, gpu_status, gpu_changes,
                   faults, success>>

\* acquire_gpu_slot: the second "async with self._lock" block, then
\* cleanup_gpu_memory, the yield, update_progress(20) and the Renderer call
AcquireSlot(t) ==
    /\ pc[t] = "admitted"
    /\ active_tasks' = Acquired(active_tasks)
    /\ tasks_db' = [tasks_db EXCEPT ![t].progress = 20]
    /\ hist' = [hist EXCEPT ![t].render_calls = @ + 1,
                            ![t].progress_writes = Append(@, 20)]
    /\ pc' = [pc EXCEPT ![t] = "rendering"]
    /\ UNCHANGED auxVars
    /\ UNCHANGED <<max_concurrent_tasks, gpu_status, gpu_changes, faults,
                   frames, success, delay, task_stats, counters>>

\* the values DepthFlowService.process_image passes to progress_callback
\* when the DepthFlow Python API can be imported
process_image_callbacks == <<10, 30, 50, 70, 90>>

\* the values _process_with_cli passes to progress_callback
process_with_cli_callbacks == <<20, 50, 90>>

\* the values the Renderer passes to progress_callback, in order, before it
\* returns ok.  True: all those of the Python API, or of the CLI after an
\* ImportError.  False: an exception was caught after any number of
\* callbacks of the Python API short of the last, or the CLI failed after
\* one or more of its callbacks.
RendererProgress(ok) ==
    IF ok
    THEN {process_image_callbacks, process_with_cli_callbacks}
    ELSE {SubSeq(process_image_callbacks, 1, n) :
              n \in 0..(Len(process_image_callbacks) - 1)}
         \cup {SubSeq(process_with_cli_callbacks, 1, n) :
                   n \in 1..Len(process_with_cli_callbacks)}

RendererCallbacks == RendererProgress(TRUE) \cup RendererProgress(FALSE)

\* DepthFlowService.process_image calls update_progress with each value of
\* progress and returns ok; the guarded block is left
RenderDone(t, ok, progress) ==
    /\ pc[t] = "rendering"
    /\ progress \in RendererProgress(ok)
    /\ success' = [success EXCEPT ![t] = ok]
    /\ faults' = IF ok THEN faults ELSE faults + 1
    /\ tasks_db' = [tasks_db EXCEPT ![t].progress =
                       IF progress = << >> THEN @ ELSE progress[Len(progress)]]
    /\ hist' = [hist EXCEPT ![t].render_fails = IF ok THEN @ ELSE @ + 1,
                            ![t].progress_writes = @ \o progress]
    /\ pc' = [pc EXCEPT ![t] = "release"]
    /\ UNCHANGED auxVars
    /\ UNCHANGED <<max_concurrent_tasks, active_tasks, gpu_status, gpu_changes,
                   frames, delay, task_stats, counters>>

\* acquire_gpu_slot's finally block, then the rest of process_image_task up
\* to its next await: the success branch, or the exception of line 163
ReleaseSlot(t) ==
    /\ pc[t] = "release"
    /\ active_tasks' = Released(active_tasks)
    /\ IF success[t]
       THEN /\ tasks_db' = [tasks_db EXCEPT ![t] = CompletedRecord(tasks_db[t])]
            /\ task_stats' = [task_stats EXCEPT !.completed_tasks = @ + 1]
            /\ counters' = [counters EXCEPT !.task_completed_count = @ + 1]
            /\ IF tasks_db[t].webhook_url
               THEN /\ pc' = [pc EXCEPT ![t] = "webhook"]
                    /\ frames' = frames
               ELSE /\ pc' = [pc EXCEPT ![t] = "done"]
                    /\ frames' = [frames EXCEPT ![t] = 0]
            /\ hist' = [hist EXCEPT ![t].progress_writes = Append(@, 100)]
            /\ UNCHANGED delay
       ELSE HandleException(t, tasks_db[t], MsgRenderFailed, hist[t])
    /\ UNCHANGED auxVars
    /\ UNCHANGED <<max_concurrent_tasks, gpu_status, gpu_changes, faults,
                   success>>

WebhookOutcomes == {"2xx", "non-2xx", "transport error"}

\* (mutant of AfterWebhook: a POST that did not succeed fails the task)
AfterWebhookStrict(task, outcome) ==
    IF outcome = "2xx" THEN task ELSE [task EXCEPT !.status = "failed"]

\* the task record after send_webhook_notification: every outcome is only
\* logged
AfterWebhook(task, outcome) == task

\* send_webhook_notification returns, whatever the outcome of the POST
WebhookDone(t, outcome) ==
    /\ pc[t] = "webhook"
    /\ outcome \in WebhookOutcomes
    /\ tasks_db' = [tasks_db EXCEPT ![t] = AfterWebhook(tasks_db[t], outcome)]
    /\ hist' = [hist EXCEPT ![t].webhook_posts = Append(@, outcome)]
    /\ pc' = [pc EXCEPT ![t] = "done"]
    /\ frames' = [frames EXCEPT ![t] = 0]
    /\ UNCHANGED auxVars
    /\ UNCHANGED <<max_concurrent_tasks, active_tasks, gpu_status, gpu_changes,
                   faults, success, delay, task_stats, counters>>

\* asyncio.sleep(delay) returns and process_image_task calls itself
BackoffDone(t) ==
    /\ pc[t] = "backoff"
    /\ pc' = [pc EXCEPT ![t] = "start"]
    /\ UNCHANGED auxVars
    /\ UNCHANGED <<max_concurrent_tasks, active_tasks, gpu_status, gpu_changes,
                   faults, tasks_db, frames, success, delay, task_stats,
                   counters, hist>>

(***************************************************************************)
(* Spec: one submitted task with every outcome of its environment at every *)
(* attempt: validation and Renderer failures, any accelerator condition,   *)
(* a webhook or none, cancellation at any time.                            *)
(***************************************************************************)
Single == {"t1"}

Next ==
    \/ \E t \in Single, w \in BOOLEAN : Submit(t, w)
    \/ \E t \in Single : Cancel(t)
    \/ AcceleratorChanges
    \/ \E t \in Single : Start(t)
    \/ \E t \in Single, v \in BOOLEAN : Validate(t, v)
    \/ \E t \in Single : CanProcessTask(t)
    \/ \E t \in Single : AcquireSlot(t)
    \/ \E t \in Single, ok \in BOOLEAN, p \in RendererCallbacks :
           RenderDone(t, ok, p)
    \/ \E t \in Single : ReleaseSlot(t)
    \/ \E t \in Single, o \in WebhookOutcomes : WebhookDone(t, o)
    \/ \E t \in Single : BackoffDone(t)

Spec == Init /\ [][Next]_vars

(***************************************************************************)
(* SpecConcurrent: the tasks of Tasks run concurrently on the event loop,  *)
(* with any capacity in 1..MaxCapacity, any accelerator condition (the     *)
(* same throughout a run), cancellation at any time and at most MaxFaults  *)
(* validation or Renderer failures; no task has a webhook.                 *)
(***************************************************************************)
NextConcurrent ==
    \/ \E t \in Tasks : Submit(t, FALSE)
    \/ \E t \in Tasks : Cancel(t)
    \/ \E t \in Tasks : Start(t)
    \/ \E t \in Tasks, v \in BOOLEAN :
           (v \/ faults < MaxFaults) /\ Validate(t, v)
    \/ \E t \in Tasks : CanProcessTask(t)
    \/ \E t \in Tasks : AcquireSlot(t)
    \/ \E t \in Tasks, ok \in BOOLEAN, p \in RendererCallbacks :
           (ok \/ faults < MaxFaults) /\ RenderDone(t, ok, p)
    \/ \E t \in Tasks : ReleaseSlot(t)
    \/ \E t \in Tasks : BackoffDone(t)

SpecConcurrent == Init /\ [][NextConcurrent]_vars

(***************************************************************************)
(* SpecPure: should_retry_error is called on one error message, any number *)
(* of times up to MaxCalls, while one task goes through its consecutive    *)
(* retries and computes the delay of each.                                 *)
(***************************************************************************)
InitPure ==
    /\ InitExecutor(1, [available |-> FALSE, memory_percent |-> 0])
    /\ InitRecorderIdle
    /\ InitHostIdle
    /\ cl_error \in Messages
    /\ cl_verdicts = << >>
    /\ bk_retry_count = 0
    /\ bk_delays = << >>

\* a call of should_retry_error(error)
Classify ==
    /\ Len(cl_verdicts) < MaxCalls
    /\ cl_verdicts' = Append(cl_verdicts, should_retry_error(cl_error))
    /\ UNCHANGED <<cl_error, bk_retry_count, bk_delays, mainVars, recVars, resp, svcVars>>

\* the retry branch: retry_count += 1, then the delay is computed
Retry ==
    /\ bk_retry_count < MaxRetryCount
    /\ bk_retry_count' = bk_retry_count + 1
    /\ bk_delays' = Append(bk_delays, RetryDelay(bk_retry_count + 1))
    /\ UNCHANGED <<cl_error, cl_verdicts, mainVars, recVars, resp, svcVars>>

NextPure == Classify \/ Retry

SpecPure == InitPure /\ [][NextPure]_vars

(***************************************************************************)
(* SpecRecorder: any sequence of calls on one MonitoringService built with *)
(* max_metrics_history = MaxMetricsHistory and max_error_history =         *)
(* MaxErrorHistory, while the clock advances.                              *)
(***************************************************************************)
InitRecorder ==
    /\ InitExecutor(1, [available |-> FALSE, memory_percent |-> 0])
    /\ InitPureIdle
    /\ InitRecorderIdle
    /\ InitHostIdle

RecordMetric(metric_name, value) ==
    /\ ms.metrics_recorded < MaxRecorded
    /\ ms' = record_metric(ms, metric_name, value, now)
    /\ ret' = None
    /\ UNCHANGED <<now, mainVars, pureVars, resp, svcVars>>

RecordError(error_type, task_id) ==
    /\ ms.errors_recorded < MaxRecorded
    /\ ms' = record_error(ms, error_type, task_id, now)
    /\ ret' = None
    /\ UNCHANGED <<now, mainVars, pureVars, resp, svcVars>>

StartTimer(timer_name) ==
    /\ ms' = start_timer(ms, timer_name, now)
    /\ ret' = None
    /\ UNCHANGED <<now, mainVars, pureVars, resp, svcVars>>

StopTimer(timer_name) ==
    /\ ms.metrics_recorded < MaxRecorded
    /\ ms' = stop_timer(ms, timer_name, now)
    /\ ret' = <<stop_timer_return(ms, timer_name, now)>>
    /\ UNCHANGED <<now, mainVars, pureVars, resp, svcVars>>

RecordTaskCompleted(task_id, processing_time) ==
    /\ ms.metrics_recorded < MaxRecorded
    /\ ms' = record_task_completed(ms, task_id, processing_time, now)
    /\ ret' = None
    /\ UNCHANGED <<now, mainVars, pureVars, resp, svcVars>>

RecordTaskRetry(task_id, retry_count) ==
    /\ ms.metrics_recorded < MaxRecorded
    /\ ms' = record_task_retry(ms, task_id, retry_count, now)
    /\ ret' = None
    /\ UNCHANGED <<now, mainVars, pureVars, resp, svcVars>>

ClearOldData(days) ==
    /\ ms' = clear_old_data(ms, days, now)
    /\ ret' = None
    /\ UNCHANGED <<now, mainVars, pureVars, resp, svcVars>>

\* the wall clock advances by an hour
Tick ==
    /\ now + 1 \in Hours
    /\ now' = now + 1
    /\ UNCHANGED <<ms, ret, mainVars, pureVars, resp, svcVars>>

NextRecorder ==
    \/ RecordMetric("task_failed_count", 1)
    \/ \E e \in ErrorTypes :
           RecordError(e, IF e = "Exception" THEN "t1" ELSE "")
    \/ \E n \in TimerNames : StartTimer(n)
    \/ \E n \in TimerNames : StopTimer(n)
    \/ RecordTaskCompleted("t1", 2)
    \/ RecordTaskRetry("t1", 1)
    \/ \E days \in {0, 7} : ClearOldData(days)
    \/ Tick

SpecRecorder == InitRecorder /\ [][NextRecorder]_vars

(***************************************************************************)
(* SpecScenarioC: capacity 1, an available accelerator with memory to      *)
(* spare, two tasks with valid images, a Renderer that always succeeds,    *)
(* no cancellation.  Every task that can take a step eventually takes one. *)
(***************************************************************************)
InitScenarioC ==
    /\ InitExecutor(1, [available |-> TRUE, memory_percent |-> 79])
    /\ InitPureIdle
    /\ InitRecorderIdle
    /\ InitHostIdle

TaskStep(t) ==
    \/ Submit(t, FALSE)
    \/ Start(t)
    \/ Validate(t, TRUE)
    \/ CanProcessTask(t)
    \/ AcquireSlot(t)
    \/ \E p \in RendererProgress(TRUE) : RenderDone(t, TRUE, p)
    \/ ReleaseSlot(t)
    \/ BackoffDone(t)

NextScenarioC == \E t \in Tasks : TaskStep(t)

SpecScenarioC ==
    /\ InitScenarioC
    /\ [][NextScenarioC]_vars
    /\ \A t \in Tasks : WF_vars(TaskStep(t))

(***************************************************************************)
(* SpecFair: one task that is never cancelled, with any accelerator        *)
(* condition, validation and Renderer failures and a webhook or none.      *)
(* Every call the executor awaits returns and every backoff elapses: a     *)
(* step of process_image_task that can be taken eventually is.             *)
(***************************************************************************)
ExecutorStep(t) ==
    \/ Start(t)
    \/ \E v \in BOOLEAN : Validate(t, v)
    \/ CanProcessTask(t)
    \/ AcquireSlot(t)
    \/ \E ok \in BOOLEAN, p \in RendererCallbacks : RenderDone(t, ok, p)
    \/ ReleaseSlot(t)
    \/ \E o \in WebhookOutcomes : WebhookDone(t, o)
    \/ BackoffDone(t)

NextFair ==
    \/ \E t \in Single, w \in BOOLEAN : Submit(t, w)
    \/ AcceleratorChanges
    \/ \E t \in Single : ExecutorStep(t)

SpecFair ==
    /\ Init
    /\ [][NextFair]_vars
    /\ \A t \in Single : WF_vars(ExecutorStep(t))

(***************************************************************************)
(* SpecProbe: is_gpu_available and its 30-second cache, called at any time *)
(* while one task with a valid image runs through the executor and the     *)
(* clock and the accelerator's condition change.  now is in seconds.       *)
(***************************************************************************)
\* what "import torch; torch.cuda.is_available()" does in get_gpu_status
TorchOutcomes == {"cuda available", "cuda unavailable", "ImportError",
                  "Exception"}

\* get_gpu_status: the GPUStatus it returns; it raises nothing
get_gpu_status(outcome, status) ==
    IF outcome = "cuda available"
    THEN status
    ELSE [available |-> FALSE, memory_percent |-> 0]

\* (mutant of CacheExpired: a check made exactly 30 seconds ago has expired)
CacheExpiredInclusive(last, ts) ==
    last = None \/ ts - last[1] >= CacheSeconds

\* (mutant of CacheExpired: the collaborator is queried on every call)
CacheExpiredAlways(last, ts) == TRUE

\* self._last_gpu_check is None or
\* (now - self._last_gpu_check).total_seconds() > 30
CacheExpired(last, ts) ==
    last = None \/ ts - last[1] > CacheSeconds

RECURSIVE SlotsAcquired(_, _)
\* the number of times acquire_gpu_slot succeeded for the tasks of S
SlotsAcquired(h, S) ==
    IF S = {} THEN 0
    ELSE LET t == CHOOSE x \in S : TRUE
         IN  h[t].render_calls + SlotsAcquired(h, S \ {t})

\* one call of is_gpu_available at time now
IsGpuAvailable ==
    \E outcome \in TorchOutcomes :
        /\ (outcome = "cuda available") = gpu_status.available
        /\ IF CacheExpired(last_gpu_check, now)
           THEN /\ gpu_available' =
                       <<get_gpu_status(outcome, gpu_status).available>>
                /\ last_gpu_check' = <<now>>
           ELSE UNCHANGED <<gpu_available, last_gpu_check>>
        /\ ret' = gpu_available'
        /\ probe' = [queried |-> CacheExpired(last_gpu_check, now),
                     outcome |-> outcome,
                     leases |-> SlotsAcquired(hist, Tasks),
                     since |-> SlotsAcquired(hist, Tasks) - probe.leases,
                     parity |-> 1 - probe.parity]
        /\ UNCHANGED <<ms, now, mainVars, pureVars, resp, monVars, opsVars>>

\* the instants of a run of SpecProbe, in seconds
Instants == {0, 1, 30, 31, 61, 62}

\* time passes
Elapse ==
    /\ \E ts \in Instants : ts > now /\ now' = ts
    /\ UNCHANGED <<ms, ret, mainVars, pureVars, resp, svcVars>>

InitProbe ==
    /\ \E status \in GPUStatus : InitExecutor(1, status)
    /\ InitPureIdle
    /\ InitRecorderIdle
    /\ InitHostIdle

NextProbe ==
    \/ IsGpuAvailable
    \/ Elapse
    \/ AcceleratorChanges
    \/ \E t \in Single : TaskStep(t)

SpecProbe == InitProbe /\ [][NextProbe]_vars

(***************************************************************************)
(* SpecHealth: get_metrics_summary called on a MonitoringService whose     *)
(* task_stats hold any total_tasks and failed_tasks up to MaxTasks.        *)
(***************************************************************************)
\* (mutant of calculate_system_health: the thresholds themselves count)
calculate_system_health_inclusive(m) ==
    LET total_tasks == m.task_stats.total_tasks
        failed_tasks == m.task_stats.failed_tasks
    IN  IF total_tasks = 0 THEN "unknown"
        ELSE IF 10 * failed_tasks >= CriticalTenths * total_tasks
             THEN "critical"
        ELSE IF 10 * failed_tasks >= WarningTenths * total_tasks
             THEN "warning"
        ELSE "healthy"

\* _calculate_system_health; failure_rate = failed_tasks / total_tasks is
\* compared with 0.5 and 0.2 by cross-multiplication
calculate_system_health(m) ==
    LET total_tasks == m.task_stats.total_tasks
        failed_tasks == m.task_stats.failed_tasks
    IN  IF total_tasks = 0 THEN "unknown"
        ELSE IF 10 * failed_tasks > CriticalTenths * total_tasks
             THEN "critical"
        ELSE IF 10 * failed_tasks > WarningTenths * total_tasks
             THEN "warning"
        ELSE "healthy"

\* get_metrics_summary: the task_stats, error_counts and system_health of
\* the dictionary it returns
get_metrics_summary(m) ==
    [task_stats |-> m.task_stats,
     error_counts |-> m.error_counts,
     system_health |-> calculate_system_health(m)]

GetMetricsSummary ==
    /\ ret' = <<get_metrics_summary(ms)>>
    /\ UNCHANGED <<ms, now, mainVars, pureVars, resp, svcVars>>

InitHealth ==
    /\ InitExecutor(1, [available |-> FALSE, memory_percent |-> 0])
    /\ InitPureIdle
    /\ InitHostIdle
    /\ now = 0
    /\ ret = None
    /\ \E total_tasks \in 0..MaxTasks, failed_tasks \in 0..MaxTasks :
           ms = [NewMonitoringService EXCEPT
                     !.task_stats.total_tasks = total_tasks,
                     !.task_stats.failed_tasks = failed_tasks]

NextHealth == GetMetricsSummary

SpecHealth == InitHealth /\ [][NextHealth]_vars

(***************************************************************************)
(* SpecMonitor: the HealthMonitor.  start_monitoring and stop_monitoring   *)
(* are called at any time; each loop task is at its loop test ("test",     *)
(* also before its first step), inside _perform_health_check ("checking")  *)
(* or _perform_cleanup ("cleaning"), in its sleep ("sleeping"), or has     *)
(* returned ("exited").  Whether the cleanup interval has passed is the    *)
(* environment's choice.  A loop task that can take a step eventually      *)
(* takes one.                                                              *)
(***************************************************************************)
\* (mutant of AlreadyRunning: start_monitoring never returns early)
AlreadyRunningIgnored(r) == FALSE

\* if self.running: return
AlreadyRunning(r) == r

\* (mutant of LoopContinues: the loops never test self.running)
LoopContinuesAlways(r) == TRUE

\* while self.running
LoopContinues(r) == r

\* how _perform_health_check can go: psutil or check_gpu_memory raises, or
\* the remediation of _auto_recovery does
CheckOutcomes == {"ok", "probe raised", "remediation raised"}

\* (mutant of AfterCheck: a failure in a health check ends the loop)
AfterCheckPropagates(outcome) ==
    IF outcome = "ok" THEN "sleeping" ELSE "exited"

\* where _monitoring_loop goes after _perform_health_check: every Exception
\* is caught and logged in _perform_health_check (or in _auto_recovery), and
\* the loop's own except clause sleeps as well
AfterCheck(outcome) == "sleeping"

\* how _perform_cleanup can go
RunOutcomes == {"ok", "file deletion raised"}

\* where _cleanup_loop goes after _perform_cleanup: every Exception is caught
\* and logged inside it
AfterRun(outcome) == "sleeping"

StartMonitoring ==
    IF AlreadyRunning(running)
    THEN /\ monitor_calls' = [monitor_calls EXCEPT !.last_start = "returned"]
         /\ UNCHANGED <<running, monitoring_loops, cleanup_loops>>
         /\ UNCHANGED <<mainVars, pureVars, recVars, resp, probeVars, opsVars>>
    ELSE /\ Len(monitoring_loops) < MaxLoops
         /\ running' = TRUE
         /\ monitoring_loops' = Append(monitoring_loops, "test")
         /\ cleanup_loops' = Append(cleanup_loops, "test")
         /\ monitor_calls' = [monitor_calls EXCEPT !.last_start = "spawned"]
         /\ UNCHANGED <<mainVars, pureVars, recVars, resp, probeVars, opsVars>>

StopMonitoring ==
    /\ running' = FALSE
    /\ monitor_calls' =
           [monitor_calls EXCEPT !.stops = IF running THEN @ + 1 ELSE @]
    /\ UNCHANGED <<monitoring_loops, cleanup_loops>>
    /\ UNCHANGED <<mainVars, pureVars, recVars, resp, probeVars, opsVars>>

\* _monitoring_loop of task i: one step, from one await to the next
MonitoringLoopStep(i) ==
    /\ i \in DOMAIN monitoring_loops
    /\ \/ /\ monitoring_loops[i] = "test"
          /\ monitoring_loops' =
                 [monitoring_loops EXCEPT ![i] =
                     IF LoopContinues(running) THEN "checking" ELSE "exited"]
          /\ UNCHANGED monitor_calls
       \/ /\ monitoring_loops[i] = "checking"
          /\ \E outcome \in CheckOutcomes :
                 /\ monitoring_loops' =
                        [monitoring_loops EXCEPT ![i] = AfterCheck(outcome)]
                 /\ monitor_calls' =
                        [monitor_calls EXCEPT
                            !.last_cycle = <<"health check", outcome>>]
       \/ /\ monitoring_loops[i] = "sleeping"
          /\ monitoring_loops' = [monitoring_loops EXCEPT ![i] = "test"]
          /\ UNCHANGED monitor_calls
    /\ UNCHANGED <<running, cleanup_loops>>
    /\ UNCHANGED <<mainVars, pureVars, recVars, resp, probeVars, opsVars>>

\* _cleanup_loop of task i: one step, from one await to the next
CleanupLoopStep(i) ==
    /\ i \in DOMAIN cleanup_loops
    /\ \/ /\ cleanup_loops[i] = "test"
          /\ \E due \in BOOLEAN :
                 cleanup_loops' =
                     [cleanup_loops EXCEPT ![i] =
                         IF ~LoopContinues(running) THEN "exited"
                         ELSE IF due THEN "cleaning" ELSE "sleeping"]
          /\ UNCHANGED monitor_calls
       \/ /\ cleanup_loops[i] = "cleaning"
          /\ \E outcome \in RunOutcomes :
                 /\ cleanup_loops' =
                        [cleanup_loops EXCEPT ![i] = AfterRun(outcome)]
                 /\ monitor_calls' =
                        [monitor_calls EXCEPT
                            !.last_cycle = <<"cleanup run", outcome>>]
       \/ /\ cleanup_loops[i] = "sleeping"
          /\ cleanup_loops' = [cleanup_loops EXCEPT ![i] = "test"]
          /\ UNCHANGED monitor_calls
    /\ UNCHANGED <<running, monitoring_loops>>
    /\ UNCHANGED <<mainVars, pureVars, recVars, resp, probeVars, opsVars>>

InitMonitor ==
    /\ InitExecutor(1, [available |-> FALSE, memory_percent |-> 0])
    /\ InitPureIdle
    /\ InitRecorderIdle
    /\ InitHostIdle

NextMonitor ==
    \/ StartMonitoring
    \/ StopMonitoring
    \/ \E i \in 1..MaxLoops : MonitoringLoopStep(i)
    \/ \E i \in 1..MaxLoops : CleanupLoopStep(i)

SpecMonitor ==
    /\ InitMonitor
    /\ [][NextMonitor]_vars
    /\ \A i \in 1..MaxLoops :
           WF_vars(MonitoringLoopStep(i)) /\ WF_vars(CleanupLoopStep(i))

(***************************************************************************)
(* The request handlers of routes.py (SpecApi).  A handler is called once  *)
(* the request has passed verify_api_key; api_key_enabled is False by      *)
(* default.  A file name is the sequence of its characters.                *)
(***************************************************************************)
\* settings.allowed_extensions
allowed_extensions ==
    {<<"j", "p", "g">>, <<"j", "p", "e", "g">>, <<"p", "n", "g">>}

\* str.lower() on one character of a file name
LowerChar(c) ==
    CASE c = "J" -> "j"
      [] c = "P" -> "p"
      [] c = "E" -> "e"
      [] c = "G" -> "g"
      [] c = "N" -> "n"
      [] OTHER -> c

\* os.path.splitext(filename)[1] for a name without directory separator:
\* from the last dot on, unless only dots precede that dot
splitext_ext(filename) ==
    LET dots == {i \in DOMAIN filename : filename[i] = "."}
    IN  IF dots = {} THEN << >>
        ELSE LET dotIndex == CHOOSE i \in dots : \A j \in dots : j <= i
             IN  IF \E i \in 1..(dotIndex - 1) : filename[i] # "."
                 THEN SubSeq(filename, dotIndex, Len(filename))
                 ELSE << >>

RECURSIVE lstrip_dots(_)
\* str.lstrip('.')
lstrip_dots(str) ==
    IF str # << >> /\ Head(str) = "." THEN lstrip_dots(Tail(str)) ELSE str

\* (mutant of validate_file_extension: the extension is not lower-cased)
validate_file_extension_case_sensitive(filename) ==
    IF filename = << >> THEN FALSE
    ELSE lstrip_dots(splitext_ext(filename)) \in allowed_extensions

\* dependencies.validate_file_extension
validate_file_extension(filename) ==
    IF filename = << >> THEN FALSE
    ELSE LET ext == splitext_ext(filename)
             extension == lstrip_dots([i \in DOMAIN ext |-> LowerChar(ext[i])])
         IN  extension \in allowed_extensions

\* the file names submitted
Filenames ==
    {<< >>,  \* no filename (None or the empty string)
     <<"a", ".", "j", "p", "g">>,  \* a.jpg
     <<"a", ".", "J", "P", "E", "G">>,  \* a.JPEG
     <<"a", ".", "P", "n", "g">>,  \* a.Png
     <<"a", ".", "g", "i", "f">>,  \* a.gif
     <<"a", ".", "p", "n", "g", ".", "t", "x", "t">>,  \* a.png.txt
     <<"p", "n", "g">>,  \* png
     <<".", "p", "n", "g">>,  \* .png
     <<"a", ".">>}  \* a.

\* what json.loads(request) and ProcessRequest(**request_data) make of the
\* request form field
Requests == {"valid", "not json", "invalid parameters"}

\* the sizes of the files submitted: the largest accepted and one byte more
FileSizes == {max_upload_size, max_upload_size + 1}

\* routes.process_image: the error it rejects the submission with, "" when
\* it accepts it
process_image_error(request, filename, file_size, saved) ==
    IF request = "not json" THEN "invalid_json"
    ELSE IF request = "invalid parameters" THEN "parameter_validation_error"
    ELSE IF ~validate_file_extension(filename) THEN "invalid_file_format"
    ELSE IF file_size > max_upload_size THEN "file_too_large"
    ELSE IF ~saved THEN "file_save_error"
    ELSE ""

\* routes.process_image; task_id is the uuid4 it would generate, saved
\* whether save_upload returns
ProcessImage(task_id, request, filename, file_size, saved) ==
    LET error == process_image_error(request, filename, file_size, saved)
    IN  /\ pc[task_id] = "none"
        /\ task_id \notin DOMAIN tasks_db
        /\ IF error # ""
           THEN /\ resp' = [op |-> "process_image", task_id |-> "",
                            error |-> error, status |-> "",
                            request |-> request, filename |-> filename,
                            parity |-> 1 - resp.parity]
                /\ UNCHANGED <<tasks_db, pc>>
           ELSE /\ tasks_db' = [x \in DOMAIN tasks_db \cup {task_id} |->
                                   IF x = task_id THEN NewTask(FALSE)
                                   ELSE tasks_db[x]]
                /\ pc' = [pc EXCEPT ![task_id] = "start"]
                /\ resp' = [op |-> "process_image", task_id |-> task_id,
                            error |-> "", status |-> "pending",
                            request |-> request, filename |-> filename,
                            parity |-> 1 - resp.parity]
        /\ UNCHANGED <<pureVars, recVars, svcVars>>
        /\ UNCHANGED <<max_concurrent_tasks, active_tasks, gpu_status,
                       gpu_changes, faults, frames, success, delay,
                       task_stats, counters, hist>>

\* (mutant of get_task_status: an unknown id is answered as a pending task)
get_task_status_lenient(db, task_id) ==
    IF task_id \notin DOMAIN db
    THEN [error |-> "", status |-> "pending"]
    ELSE [error |-> "", status |-> db[task_id].status]

\* routes.get_task_status: the error it raises, or the status it returns
get_task_status(db, task_id) ==
    IF task_id \notin DOMAIN db
    THEN [error |-> "task_not_found", status |-> ""]
    ELSE [error |-> "", status |-> db[task_id].status]

\* routes.get_task_status
GetTaskStatus(task_id) ==
    /\ resp' = [NoResponse EXCEPT
                   !.op = "get_task_status",
                   !.task_id = task_id,
                   !.error = get_task_status(tasks_db, task_id).error,
                   !.status = get_task_status(tasks_db, task_id).status,
                   !.parity = 1 - resp.parity]
    /\ UNCHANGED <<mainVars, pureVars, recVars, svcVars>>

\* (mutant of cancel_task_error: a failed task may be cancelled)
cancel_task_error_failed_allowed(db, task_id) ==
    IF task_id \notin DOMAIN db THEN "task_not_found"
    ELSE IF db[task_id].status \in {"completed", "cancelled"}
    THEN "task_not_cancellable"
    ELSE ""

\* routes.cancel_task: the error it raises, "" when it cancels the task
cancel_task_error(db, task_id) ==
    IF task_id \notin DOMAIN db THEN "task_not_found"
    ELSE IF db[task_id].status \in {"completed", "failed", "cancelled"}
    THEN "task_not_cancellable"
    ELSE ""

\* routes.cancel_task
CancelTask(task_id) ==
    LET error == cancel_task_error(tasks_db, task_id)
    IN  /\ resp' = [NoResponse EXCEPT !.op = "cancel_task",
                                      !.task_id = task_id,
                                      !.error = error,
                                      !.parity = 1 - resp.parity]
        /\ IF error # ""
           THEN UNCHANGED <<tasks_db, hist>>
           ELSE /\ tasks_db' = [tasks_db EXCEPT ![task_id].status = "cancelled"]
                /\ hist' = [hist EXCEPT ![task_id].cancelled = TRUE]
        /\ UNCHANGED <<pureVars, recVars, svcVars>>
        /\ UNCHANGED <<max_concurrent_tasks, active_tasks, gpu_status,
                       gpu_changes, faults, pc, frames, success, delay,
                       task_stats, counters>>

(***************************************************************************)
(* SpecApi: clients submit, query and cancel at any time while the         *)
(* executor runs the accepted tasks on an available accelerator with a     *)
(* slot for each; an image may fail validation.                            *)
(***************************************************************************)
InitApi ==
    /\ InitExecutor(MaxCapacity, [available |-> TRUE, memory_percent |-> 79])
    /\ InitPureIdle
    /\ InitRecorderIdle
    /\ InitHostIdle

NextApi ==
    \/ \E t \in Tasks, r \in Requests, f \in Filenames, z \in FileSizes,
          saved \in BOOLEAN : ProcessImage(t, r, f, z, saved)
    \/ \E t \in Tasks : GetTaskStatus(t)
    \/ \E t \in Tasks : CancelTask(t)
    \/ \E t \in Tasks : Start(t)
    \/ \E t \in Tasks, v \in BOOLEAN :
           (v \/ faults < MaxFaults) /\ Validate(t, v)
    \/ \E t \in Tasks : CanProcessTask(t)
    \/ \E t \in Tasks : AcquireSlot(t)
    \/ \E t \in Tasks, p \in RendererProgress(TRUE) : RenderDone(t, TRUE, p)
    \/ \E t \in Tasks : ReleaseSlot(t)

SpecApi == InitApi /\ [][NextApi]_vars

(***************************************************************************)
(* HealthMonitor: one health check (SpecSeverity, SpecCycle).  An issue is *)
(* the sequence of the tokens of its text; the reading formatted after the *)
(* colon is left out, no keyword being searched for in it.                 *)
(***************************************************************************)
CpuLimit == 90
MemoryLimit == 85
DiskLimit == 90
GpuMemoryLimit == 90
GpuTemperatureLimit == 85

IssueCpu == <<"CPU", "zh:usage", "zh:too high">>
IssueMemory == <<"zh:memory", "zh:usage", "zh:too high">>
IssueDisk == <<"zh:disk space", "zh:insufficient">>
IssueGpuUnavailable == <<"GPU", "zh:unavailable">>
IssueGpuMemory == <<"GPU", "zh:memory", "zh:usage", "zh:too high">>
IssueGpuTemperature == <<"GPU", "zh:temperature", "zh:too high">>

\* needle in haystack, for a needle of several tokens
ContainsSeq(haystack, needle) ==
    \E i \in 0..(Len(haystack) - Len(needle)) :
        \A j \in 1..Len(needle) : haystack[i + j] = needle[j]

\* (mutant of check_resource_issues: the limits themselves are flagged)
check_resource_issues_inclusive(issues, cpu_percent, memory_percent, disk_percent) ==
    issues
    \o (IF cpu_percent >= CpuLimit THEN <<IssueCpu>> ELSE << >>)
    \o (IF memory_percent >= MemoryLimit THEN <<IssueMemory>> ELSE << >>)
    \o (IF disk_percent >= DiskLimit THEN <<IssueDisk>> ELSE << >>)

\* _check_resource_issues: the issues list after it
check_resource_issues(issues, cpu_percent, memory_percent, disk_percent) ==
    issues
    \o (IF cpu_percent > CpuLimit THEN <<IssueCpu>> ELSE << >>)
    \o (IF memory_percent > MemoryLimit THEN <<IssueMemory>> ELSE << >>)
    \o (IF disk_percent > DiskLimit THEN <<IssueDisk>> ELSE << >>)

\* _check_gpu_issues: the issues list after it.  gpu is check_gpu_memory's
\* dictionary and temperature its "temperature" entry, None or <<degrees>>
check_gpu_issues(issues, gpu, temperature) ==
    IF ~gpu.available
    THEN Append(issues, IssueGpuUnavailable)
    ELSE issues
         \o (IF gpu.memory_percent > GpuMemoryLimit
             THEN <<IssueGpuMemory>> ELSE << >>)
         \* "gpu_temperature and gpu_temperature > 85": None and 0 are falsy
         \o (IF /\ temperature # None
                /\ temperature[1] # 0
                /\ temperature[1] > GpuTemperatureLimit
             THEN <<IssueGpuTemperature>> ELSE << >>)

critical_keywords == <<"zh:unavailable", "zh:insufficient", "zh:too high">>
warning_keywords == <<"zh:warning", "zh:attention">>

\* any(any(keyword in issue for keyword in keywords) for issue in issues)
AnyKeyword(keywords, issues) ==
    \E k \in DOMAIN issues : FirstMatch(keywords, issues[k], 1) # 0

\* (mutant of determine_overall_status: issues without a warning keyword
\* do not count)
determine_overall_status_keywords_only(issues) ==
    IF AnyKeyword(critical_keywords, issues) THEN "critical"
    ELSE IF AnyKeyword(warning_keywords, issues) THEN "warning"
    ELSE "healthy"

\* _determine_overall_status: the overall_status it sets
determine_overall_status(issues) ==
    LET has_critical == AnyKeyword(critical_keywords, issues)
        has_warning == AnyKeyword(warning_keywords, issues)
    IN  IF has_critical THEN "critical"
        ELSE IF has_warning \/ issues # << >> THEN "warning"
        ELSE "healthy"

\* (mutant of NeedsGpuCleanup: any issue about memory counts)
NeedsGpuCleanupAnyMemory(issues) ==
    \E k \in DOMAIN issues : Contains(issues[k], "zh:memory")

\* _auto_recovery's first test: any("GPU 記憶體" in issue for issue in issues)
NeedsGpuCleanup(issues) ==
    \E k \in DOMAIN issues : ContainsSeq(issues[k], <<"GPU", "zh:memory">>)

\* _auto_recovery's second test: any("任務" in issue for issue in issues)
NeedsTaskCleanup(issues) ==
    \E k \in DOMAIN issues : Contains(issues[k], "zh:task")

\* force_cleanup: every outcome of torch ends in a normal return of None; it reads
\* and writes no field of the GPUResourceManager and no task record
force_cleanup(outcome) == None

(***************************************************************************)
(* SpecSeverity: _determine_overall_status applied to a HealthStatus       *)
(* holding any list of up to MaxIssues issues.                             *)
(***************************************************************************)
MaxIssues == 3

\* the issues tried: the six a health check can flag, one with a warning
\* keyword only, and one with no keyword of either list
Issues ==
    {IssueCpu, IssueMemory, IssueDisk, IssueGpuUnavailable, IssueGpuMemory,
     IssueGpuTemperature, <<"zh:warning", "zh:task">>,
     <<"zh:task", "zh:stuck">>}

IssueLists == UNION {[1..n -> Issues] : n \in 0..MaxIssues}

InitSeverity ==
    /\ InitExecutor(1, [available |-> FALSE, memory_percent |-> 0])
    /\ InitPureIdle
    /\ InitRecorderIdle
    /\ files = << >>
    /\ \E issues \in IssueLists :
           health_status = [NewHealthStatus EXCEPT !.issues = issues]

DetermineOverallStatus ==
    /\ ~cycle.determined
    /\ health_status' =
           [health_status EXCEPT
                !.overall_status = determine_overall_status(health_status.issues)]
    /\ cycle' = [cycle EXCEPT !.determined = TRUE]
    /\ UNCHANGED <<last_cleanup, files, cleanup_run, invocations>>
    /\ UNCHANGED <<mainVars, pureVars, recVars, resp, probeVars, monVars>>

NextSeverity == DetermineOverallStatus

SpecSeverity == InitSeverity /\ [][NextSeverity]_vars

(***************************************************************************)
(* SpecCycle: health checks made one after another on a host whose         *)
(* readings lie on both sides of every limit.                              *)
(***************************************************************************)
CpuReadings == {CpuLimit, CpuLimit + 1}
MemoryReadings == {MemoryLimit, MemoryLimit + 1}
DiskReadings == {DiskLimit, DiskLimit + 1}
Temperatures ==
    {None, <<GpuTemperatureLimit>>, <<GpuTemperatureLimit + 1>>}

\* the accelerator conditions a health check starts from
CycleGPUStatus ==
    {[available |-> FALSE, memory_percent |-> 0]} \cup
    {[available |-> TRUE, memory_percent |-> p] :
         p \in {79, GpuMemoryLimit, GpuMemoryLimit + 1}}

\* what psutil and check_gpu_memory do in _perform_health_check
ProbeOutcomes == {"ok", "raised"}

\* _perform_health_check, whole: the readings, the three checks, the
\* overall status and _auto_recovery; an exception of a probe ends it in
\* the except clause before a HealthStatus exists
PerformHealthCheck(cpu_percent, memory_percent, disk_percent, temperature, outcome, cleanup) ==
    /\ IF outcome = "raised"
       THEN /\ cycle' = [cycle EXCEPT !.checks = 1 - @,
                                      !.determined = FALSE,
                                      !.force_cleanups = 0]
            /\ UNCHANGED health_status
       ELSE LET gpu == check_gpu_memory(gpu_status)
                issues ==
                    check_gpu_issues(
                        check_resource_issues(<< >>, cpu_percent,
                                              memory_percent, disk_percent),
                        gpu, temperature)
                \* _cleanup_gpu_memory calls force_cleanup;
                \* _cleanup_stuck_tasks only logs
                cleaned ==
                    IF NeedsGpuCleanup(issues)
                    THEN <<force_cleanup(cleanup)>> ELSE << >>
            IN  /\ health_status' =
                       [overall_status |-> determine_overall_status(issues),
                        cpu_usage |-> cpu_percent,
                        memory_usage |-> memory_percent,
                        gpu_available |-> gpu.available,
                        gpu_memory_usage |-> gpu.memory_percent,
                        gpu_temperature |->
                            IF gpu.available THEN temperature ELSE None,
                        issues |-> issues]
                /\ cycle' = [checks |-> 1 - cycle.checks,
                             determined |-> TRUE,
                             disk_percent |-> disk_percent,
                             force_cleanups |-> Len(cleaned)]
    /\ UNCHANGED <<last_cleanup, files, cleanup_run, invocations>>
    /\ UNCHANGED <<mainVars, pureVars, recVars, resp, probeVars, monVars>>

\* force_cleanup called on its own
ForceCleanup(outcome) ==
    /\ cycle.force_cleanups < MaxCalls
    /\ cycle' = [cycle EXCEPT
                     !.force_cleanups = @ + Len(<<force_cleanup(outcome)>>)]
    /\ UNCHANGED <<health_status, last_cleanup, files, cleanup_run,
                   invocations>>
    /\ UNCHANGED <<mainVars, pureVars, recVars, resp, probeVars, monVars>>

InitCycle ==
    /\ \E status \in CycleGPUStatus : InitExecutor(1, status)
    /\ InitPureIdle
    /\ InitRecorderIdle
    /\ InitHostIdle

NextCycle ==
    \E cpu_percent \in CpuReadings, memory_percent \in MemoryReadings,
       disk_percent \in DiskReadings, temperature \in Temperatures,
       outcome \in ProbeOutcomes, cleanup \in TorchOutcomes :
        PerformHealthCheck(cpu_percent, memory_percent, disk_percent,
                           temperature, outcome, cleanup)

SpecCycle == InitCycle /\ [][NextCycle]_vars

(***************************************************************************)
(* SpecRecovery: health checks and force_cleanup calls made at any time    *)
(* while one task with a valid image runs through the executor and the     *)
(* accelerator's condition changes.  CPU and disk stay at their limits and *)
(* no temperature is read.                                                 *)
(***************************************************************************)
NextRecovery ==
    \/ \E memory_percent \in MemoryReadings, outcome \in ProbeOutcomes,
          cleanup \in TorchOutcomes :
           PerformHealthCheck(CpuLimit, memory_percent, DiskLimit, None,
                              outcome, cleanup)
    \/ \E outcome \in TorchOutcomes : ForceCleanup(outcome)
    \/ AcceleratorChanges
    \/ \E t \in Single : TaskStep(t)

SpecRecovery == InitCycle /\ [][NextRecovery]_vars

(***************************************************************************)
(* SpecCleanup: _cleanup_loop on the wall clock.  now is in seconds; the   *)
(* loop sleeps 60 s between its tests, and one pass of its body (the test, *)
(* _perform_cleanup and the assignment to last_cleanup) has no suspension  *)
(* point inside.  A file is its directory and its modification time.       *)
(***************************************************************************)
CleanupInterval == 600
CleanupPoll == 60
UploadMaxAge == 24 * 3600
OutputMaxAge == 48 * 3600

\* the loop's tests that the clock allows
MaxPolls == 23

\* the first instant at which a cleanup run can start
FirstRun == CleanupInterval + CleanupPoll

Uploads == {"u1", "u2"}
Outputs == {"o1"}

\* the modification times tried: at the first run the file is one second
\* older than the limit, exactly at the limit, or a day younger
UploadTimes ==
    {FirstRun - UploadMaxAge - 1, FirstRun - UploadMaxAge,
     FirstRun - UploadMaxAge + 24 * 3600}
OutputTimes ==
    {FirstRun - OutputMaxAge - 1, FirstRun - OutputMaxAge}

\* "(datetime.now() - self.last_cleanup).total_seconds() > self.cleanup_interval"
CleanupDue(last, ts) == ts - last > CleanupInterval

\* "file_mtime < cutoff_time" with cutoff_time = now - max_age
Expired(mtime, ts, max_age) == mtime < ts - max_age

\* the orders in which glob("*") may yield the files of S
Orders(S) ==
    {o \in [1..Cardinality(S) -> S] : \A i, j \in DOMAIN o : o[i] = o[j] => i = j}

RECURSIVE Sweep(_, _, _, _, _, _)
\* one "for file_path in dir.glob('*')" loop from the i-th file on: the
\* files left, and whether unlink raised.  failing is the file whose unlink
\* raises, "" when none does
Sweep(fs, order, i, ts, max_age, failing) ==
    IF i > Len(order) THEN [files |-> fs, raised |-> FALSE]
    ELSE LET f == order[i]
         IN  IF f \notin DOMAIN fs \/ ~Expired(fs[f], ts, max_age)
             THEN Sweep(fs, order, i + 1, ts, max_age, failing)
             ELSE IF f = failing
             THEN [files |-> fs, raised |-> TRUE]
             ELSE Sweep([x \in DOMAIN fs \ {f} |-> fs[x]], order, i + 1, ts,
                        max_age, failing)

\* _cleanup_temp_files: the files left.  Both loops stand in one try, so an
\* exception in the first skips the second
cleanup_temp_files(fs, ts, upload_order, output_order, failing) ==
    LET first == Sweep(fs, upload_order, 1, ts, UploadMaxAge, failing)
    IN  IF first.raised THEN first.files
        ELSE Sweep(first.files, output_order, 1, ts, OutputMaxAge,
                   failing).files

\* one pass of the body of _cleanup_loop, up to its sleep
CleanupLoopPass(upload_order, output_order, failing, outcome) ==
    /\ cleanup_loops = <<"test">>
    /\ running
    /\ IF CleanupDue(last_cleanup, now)
       THEN \* _perform_cleanup: _cleanup_temp_files, _cleanup_gpu_memory
            \* (force_cleanup); _cleanup_expired_tasks only logs
            /\ files' = cleanup_temp_files(files, now, upload_order,
                                           output_order, failing)
            /\ cleanup_run' =
                   [runs |-> 1 - cleanup_run.runs, at |-> now,
                    since |-> last_cleanup, before |-> files,
                    force_cleanups |-> Len(<<force_cleanup(outcome)>>)]
            /\ last_cleanup' = now
       ELSE UNCHANGED <<files, cleanup_run, last_cleanup>>
    /\ cleanup_loops' = <<"sleeping">>
    /\ UNCHANGED <<running, monitoring_loops, monitor_calls, health_status,
                   cycle, invocations>>
    /\ UNCHANGED <<mainVars, pureVars, recVars, resp, probeVars>>

\* CleanupPoll seconds pass: a sleeping loop is due for its next test
PollElapses ==
    /\ now < MaxPolls * CleanupPoll
    /\ now' = now + CleanupPoll
    /\ cleanup_loops' =
           [i \in DOMAIN cleanup_loops |->
               IF cleanup_loops[i] = "sleeping" THEN "test"
               ELSE cleanup_loops[i]]
    /\ UNCHANGED <<running, monitoring_loops, monitor_calls, opsVars>>
    /\ UNCHANGED <<ms, ret, mainVars, pureVars, resp, probeVars>>

InitCleanup ==
    /\ InitExecutor(1, [available |-> FALSE, memory_percent |-> 0])
    /\ InitPureIdle
    /\ InitRecorderIdle
    /\ health_status = NewHealthStatus
    /\ \E u1 \in UploadTimes, u2 \in UploadTimes, o1 \in OutputTimes :
           files = [f \in Uploads \cup Outputs |->
                       IF f = "u1" THEN u1 ELSE IF f = "u2" THEN u2 ELSE o1]

NextCleanup ==
    \/ StartMonitoring
    \/ PollElapses
    \/ \E upload_order \in Orders(Uploads), output_order \in Orders(Outputs),
          failing \in {""} \cup Uploads \cup Outputs,
          outcome \in TorchOutcomes :
           CleanupLoopPass(upload_order, output_order, failing, outcome)

SpecCleanup == InitCleanup /\ [][NextCleanup]_vars

(***************************************************************************)
(* SpecWrapper: the performance_monitor wrapper around process_image_task. *)
(* Each task is processed by one invocation, which may invoke the wrapped  *)
(* function again for a retry and returns when that invocation has; the    *)
(* invocations of different tasks interleave.  now is in seconds.          *)
(***************************************************************************)
\* the invocations one task may have open at a time
MaxNesting == 2

\* the seconds that pass in a run of SpecWrapper
MaxSeconds == 2

\* f"{operation_name}_operation" with operation_name "image_processing"
OperationTimer == "image_processing_operation"

\* async_wrapper up to "await func(...)": start_timer.  The invocation is
\* the first of its task, or the retry awaited by the innermost one
WrapperEnter(t) ==
    /\ Len(invocations[t]) < MaxNesting
    /\ \A i \in DOMAIN invocations[t] : invocations[t][i].state = "running"
    /\ ms' = start_timer(ms, OperationTimer, now)
    /\ invocations' =
           [invocations EXCEPT
                ![t] = Append(@, [started |-> now, state |-> "running"])]
    /\ ret' = None
    /\ UNCHANGED <<health_status, cycle, last_cleanup, files, cleanup_run>>
    /\ UNCHANGED <<now, mainVars, pureVars, resp, probeVars, monVars>>

\* async_wrapper from the end of "await func(...)" on, for the innermost
\* running invocation of task t: stop_timer and record_metric, or, when
\* func raised error_type, stop_timer, record_error, record_metric and raise.
\* An exception of the retry leaves the invocation that awaited it too
WrapperExit(t, raised, error_type) ==
    /\ \E i \in DOMAIN invocations[t] :
           /\ invocations[t][i].state = "running"
           /\ \A j \in DOMAIN invocations[t] :
                  j > i => invocations[t][j].state # "running"
           /\ IF i < Len(invocations[t])
              THEN raised <=> invocations[t][i + 1].state = "raised"
              ELSE TRUE
           /\ invocations' =
                  [invocations EXCEPT
                       ![t][i].state = IF raised THEN "raised" ELSE "returned"]
    /\ LET stopped == stop_timer(ms, OperationTimer, now)
       IN  ms' = IF raised
                 THEN record_metric(record_error(stopped, error_type, "", now),
                                    "image_processing_error_count", 1, now)
                 ELSE record_metric(stopped,
                                    "image_processing_success_count", 1, now)
    /\ ret' = <<stop_timer_return(ms, OperationTimer, now)>>
    /\ UNCHANGED <<health_status, cycle, last_cleanup, files, cleanup_run>>
    /\ UNCHANGED <<now, mainVars, pureVars, resp, probeVars, monVars>>

\* type(e).__name__ of an exception that leaves process_image_task.  The
\* function handles what its try block raises; what leaves it comes from
\* its except block (os.listdir in cleanup_task_files), and is no plain
\* Exception.  One such type is tried
EscapingTypes == {"RuntimeError"}

\* a second passes
SecondPasses ==
    /\ now < MaxSeconds
    /\ now' = now + 1
    /\ UNCHANGED <<ms, ret, mainVars, pureVars, resp, svcVars>>

InitWrapper ==
    /\ InitExecutor(MaxCapacity, [available |-> TRUE, memory_percent |-> 79])
    /\ InitPureIdle
    /\ InitRecorderIdle
    /\ InitHostIdle

NextWrapper ==
    \/ \E t \in Tasks : WrapperEnter(t)
    \/ \E t \in Tasks, raised \in BOOLEAN, error_type \in EscapingTypes :
           WrapperExit(t, raised, error_type)
    \/ SecondPasses

SpecWrapper == InitWrapper /\ [][NextWrapper]_vars

(***************************************************************************)
(* Properties                                                              *)
(***************************************************************************)
\* the tasks whose invocation is between the increment and the decrement of
\* acquire_gpu_slot
InGuardedBlock == {t \in Tasks : pc[t] \in {"rendering", "release"}}

\* the error of the task's latest failed attempt
LastError(t) ==
    IF tasks_db[t].status = "failed" THEN tasks_db[t].error_message
    ELSE tasks_db[t].retry_history[Len(tasks_db[t].retry_history)].error

C2_LeaseCount ==
    /\ active_tasks = Cardinality(InGuardedBlock)
    /\ (InGuardedBlock = {} => active_tasks = 0)

\* a task whose Renderer failed has left its guarded block while the other
\* task is still inside its own
C2_Witness ==
    \E t \in Tasks, u \in Tasks :
        /\ t # u
        /\ hist[t].render_fails = 1
        /\ pc[t] = "backoff"
        /\ pc[u] = "rendering"
        /\ active_tasks = 1

StatusEdges ==
    {<<"pending", "processing">>, <<"processing", "completed">>,
     <<"processing", "pending">>, <<"processing", "failed">>,
     <<"pending", "cancelled">>, <<"processing", "cancelled">>}

\* C3: every change of a task's status follows one of the edges of
\* StatusEdges; completed, failed and cancelled are never left.
C3_StatusEdges ==
    [][\A t \in DOMAIN tasks_db :
          tasks_db'[t].status # tasks_db[t].status =>
              <<tasks_db[t].status, tasks_db'[t].status>> \in StatusEdges]_vars

\* C4: a task whose every attempt fails with a retryable error is attempted
\* exactly max_retries + 1 times, becomes failed exactly once, has then
\* max_retries entries in retry_history, and is never attempted again.
C4_RetryExhaustion ==
    /\ [](\A t \in DOMAIN tasks_db :
             /\ hist[t].failed_count <= 1
             /\ (hist[t].failed_count = 1) = (tasks_db[t].status = "failed")
             /\ (tasks_db[t].status = "failed"
                 /\ tasks_db[t].error_message # MsgInvalidImage)
                => /\ hist[t].attempts = DefaultMaxRetries + 1
                   /\ Len(tasks_db[t].retry_history) = DefaultMaxRetries
                   /\ frames[t] = 0)
    /\ [][\A t \in DOMAIN tasks_db :
             tasks_db[t].status = "failed"
             => /\ hist'[t] = hist[t]
                /\ tasks_db'[t] = tasks_db[t]
                /\ active_tasks' = active_tasks]_vars

\* the Renderer failed on each of the four attempts and the task is failed
C4_Witness ==
    \E t \in DOMAIN tasks_db :
        /\ tasks_db[t].status = "failed"
        /\ hist[t].render_fails = DefaultMaxRetries + 1
        /\ hist[t].attempts = DefaultMaxRetries + 1
        /\ Len(tasks_db[t].retry_history) = DefaultMaxRetries

\* C6: a task that is not cancelled, whose Renderer fails k <= max_retries
\* times and then succeeds, ends completed with exactly k entries in
\* retry_history.
C6_RetryThenSuccess ==
    \A t \in DOMAIN tasks_db :
        (/\ pc[t] \in {"webhook", "done"}
         /\ success[t]
         /\ ~hist[t].cancelled
         /\ hist[t].rejections = 0)
        => /\ tasks_db[t].status = "completed"
           /\ Len(tasks_db[t].retry_history) = hist[t].render_fails
           /\ hist[t].render_fails <= DefaultMaxRetries

\* three Renderer failures, then a success
C6_Witness ==
    \E t \in DOMAIN tasks_db :
        /\ pc[t] = "done"
        /\ tasks_db[t].status = "completed"
        /\ ~hist[t].cancelled
        /\ hist[t].rejections = 0
        /\ hist[t].render_fails = 3
        /\ hist[t].render_calls = 4
        /\ Len(tasks_db[t].retry_history) = 3

\* the conditions under which the claim has can_process_task refuse
ShouldRefuse ==
    \/ active_tasks >= max_concurrent_tasks
    \/ ~gpu_status.available
    \/ gpu_status.memory_percent >= MemoryThresholdPercent

RefusalReason ==
    IF active_tasks >= max_concurrent_tasks THEN ReasonCapacity
    ELSE IF ~gpu_status.available THEN ReasonUnavailable
    ELSE ReasonMemory

\* C8: can_process_task refuses exactly when active_tasks >=
\* max_concurrent_tasks, or the accelerator is unavailable, or
\* memory_percent / 100 >= memory_threshold, and the refusal carries the
\* reason of the first of these that holds (memory_percent = 95 with a free
\* slot and an available accelerator: insufficient GPU memory).
C8_AdmissionCheck ==
    [][\A t \in Tasks :
          (pc[t] = "check" /\ pc'[t] # "check")
          => /\ (pc'[t] = "admitted") = ~ShouldRefuse
             /\ (ShouldRefuse => LastError(t)' = MsgAcquire(RefusalReason))
             /\ ((/\ active_tasks < max_concurrent_tasks
                  /\ gpu_status.available
                  /\ gpu_status.memory_percent = 95)
                 => LastError(t)' = MsgAcquire(ReasonMemory))]_vars

\* a task was refused for insufficient GPU memory at 95 percent while the
\* other task was refused the same way or is still waiting
C8_Witness ==
    \E t \in DOMAIN tasks_db :
        /\ gpu_status.available
        /\ gpu_status.memory_percent = 95
        /\ active_tasks < max_concurrent_tasks
        /\ pc[t] = "backoff"
        /\ LastError(t) = MsgAcquire(ReasonMemory)

\* the delays of retries 1..5, and of every later one
ExpectedDelay(n) ==
    IF n <= 5 THEN <<60, 120, 240, 300, 300>>[n] ELSE 300

\* C5: the delay before retry n is min(60 * 2^(n-1), 300): 60, 120, 240,
\* 300, 300 for the consecutive retries 1..5, never below 60, never above
\* 300.
C5_BackoffSequence ==
    /\ Len(bk_delays) = bk_retry_count
    /\ \A n \in DOMAIN bk_delays :
           /\ bk_delays[n] = ExpectedDelay(n)
           /\ bk_delays[n] >= 60
           /\ bk_delays[n] <= 300

\* five consecutive retries of one task were delayed
C5_Witness == bk_delays = <<60, 120, 240, 300, 300>>

\* the message holds a fatal keyword, after lower-casing
HasFatalKeyword(msg) ==
    \E k \in DOMAIN non_retryable_errors :
        Contains(Lower(msg), non_retryable_errors[k])

HasRetryableKeyword(msg) ==
    \E k \in DOMAIN retryable_errors :
        Contains(Lower(msg), retryable_errors[k])

\* C9: should_retry_error returns False exactly for the messages that hold a
\* fatal keyword after lower-casing, whether or not they hold a retryable
\* one, and True for every other message; every call on the same message
\* returns the same verdict.
C9_Classifier ==
    /\ \A i \in DOMAIN cl_verdicts : cl_verdicts[i] = ~HasFatalKeyword(cl_error)
    /\ \A i \in DOMAIN cl_verdicts, j \in DOMAIN cl_verdicts :
           cl_verdicts[i] = cl_verdicts[j]

\* a message with a fatal keyword in upper case and a retryable keyword was
\* classified twice, Fatal both times
C9_Witness ==
    /\ cl_error = <<"GPU", "INVALID_FILE_FORMAT">>
    /\ HasRetryableKeyword(cl_error)
    /\ cl_verdicts = <<FALSE, FALSE>>

\* the entries of history h are the last Len(h) of those ever appended, in
\* the order they were appended
LatestInOrder(h, recorded) ==
    \A i \in DOMAIN h : h[i].id = recorded - Len(h) + i

\* a step that appended to history h (of capacity maxlen) left the latest
\* entries, as many as fit, in insertion order, the old ones unchanged
AppendedTo(h, recorded, h2, recorded2, maxlen) ==
    recorded2 > recorded
    => /\ Len(h2) = Min(Len(h) + (recorded2 - recorded), maxlen)
       /\ LatestInOrder(h2, recorded2)
       /\ \A i \in DOMAIN h2, j \in DOMAIN h :
              h2[i].id = h[j].id => h2[i] = h[j]

\* C10: metrics_history never holds more than max_metrics_history entries
\* and error_history never more than max_error_history; an append to a full
\* history removes exactly its oldest entry and keeps the others in
\* insertion order.
C10_RingBuffers ==
    /\ [](/\ Len(ms.metrics_history) <= MaxMetricsHistory
          /\ Len(ms.error_history) <= MaxErrorHistory
          /\ LatestInOrder(ms.metrics_history, ms.metrics_recorded)
          /\ LatestInOrder(ms.error_history, ms.errors_recorded))
    /\ [][/\ AppendedTo(ms.metrics_history, ms.metrics_recorded,
                        ms'.metrics_history, ms'.metrics_recorded,
                        MaxMetricsHistory)
          /\ AppendedTo(ms.error_history, ms.errors_recorded,
                        ms'.error_history, ms'.errors_recorded,
                        MaxErrorHistory)]_vars

\* both histories are full and each has lost its oldest entry
C10_Witness ==
    /\ Len(ms.metrics_history) = MaxMetricsHistory
    /\ Len(ms.error_history) = MaxErrorHistory
    /\ ms.metrics_recorded > MaxMetricsHistory
    /\ ms.errors_recorded > MaxErrorHistory
    /\ ms.metrics_history[1].id = ms.metrics_recorded - MaxMetricsHistory + 1
    /\ ms.error_history[1].id = ms.errors_recorded - MaxErrorHistory + 1

\* C7 as stated: with capacity 1, two submitted tasks and a Renderer that
\* always succeeds, both tasks eventually reach status completed.
C7_BothEventuallyCompleted ==
    <>(\A t \in Tasks :
          t \in DOMAIN tasks_db /\ tasks_db[t].status = "completed")

\* C7: with capacity 1, two submitted tasks and a Renderer that always
\* succeeds, an acquire attempted while the other task holds its lease is
\* rejected with the concurrency-limit reason; both tasks eventually reach
\* completed or failed, and a task is failed only after its acquire was
\* rejected on each of its max_retries + 1 attempts.
C7_ScenarioC ==
    /\ [][\A t \in Tasks :
             (/\ pc[t] = "check"
              /\ pc'[t] # "check"
              /\ \E u \in Tasks \ {t} : u \in InGuardedBlock)
             => /\ pc'[t] # "admitted"
                /\ LastError(t)' = MsgAcquire(ReasonCapacity)
                /\ should_retry_error(LastError(t)')]_vars
    /\ [](\A t \in DOMAIN tasks_db :
             pc[t] \in {"done", "raised"}
             => \/ tasks_db[t].status = "completed"
                \/ /\ tasks_db[t].status = "failed"
                   /\ hist[t].rejections = DefaultMaxRetries + 1
                   /\ hist[t].render_calls = 0)
    /\ <>(\A t \in Tasks :
             /\ t \in DOMAIN tasks_db
             /\ pc[t] \in {"done", "raised"}
             /\ tasks_db[t].status \in {"completed", "failed"})

\* the second task was rejected while the first held its lease, and both
\* are completed
C7_Witness ==
    /\ \A t \in Tasks :
           /\ t \in DOMAIN tasks_db
           /\ pc[t] = "done"
           /\ tasks_db[t].status = "completed"
    /\ \E t \in Tasks :
           /\ hist[t].rejections >= 1
           /\ tasks_db[t].retry_history[1].error = MsgAcquire(ReasonCapacity)

\* C11: stop_timer(name) with no timer of that name active returns 0 and
\* leaves the service as it was: no sample appended, no gauge or counter
\* changed, the active timers unchanged.
C11_UnmatchedStop ==
    [][\A n \in TimerNames :
          (/\ n \notin DOMAIN ms.performance_timers
           /\ ret # <<0>>
           /\ ret' # None
           /\ now' = now)
          => /\ ret' = <<0>>
             /\ ms' = ms]_vars

\* a timer was started and stopped an hour later, and then stopped again
C11_Witness ==
    /\ ret = <<0>>
    /\ now = 1
    /\ ms.performance_timers = << >>
    /\ ms.metrics_recorded = 1
    /\ ms.gauges["image_processing_operation_duration"] = 1
    /\ Len(ms.metrics_history) = 1

\* C12: when validate_image returns False the task becomes failed in that
\* attempt: active_tasks is not incremented, the Renderer is not called,
\* retry_count and retry_history stay as they were, and no further attempt
\* of the task is started.
C12_ValidationFailure ==
    /\ [][\A t \in DOMAIN tasks_db :
             (pc[t] = "validating" /\ pc'[t] \notin {"validating", "check"})
             => /\ tasks_db'[t].status = "failed"
                /\ tasks_db'[t].error_message = MsgInvalidImage
                /\ pc'[t] \in {"done", "raised"}
                /\ frames'[t] = 0
                /\ active_tasks' = active_tasks
                /\ hist'[t].render_calls = hist[t].render_calls
                /\ hist'[t].attempts = hist[t].attempts
                /\ tasks_db'[t].retry_count = tasks_db[t].retry_count
                /\ tasks_db'[t].retry_history = tasks_db[t].retry_history]_vars
    /\ [][\A t \in DOMAIN tasks_db :
             (/\ pc[t] \in {"done", "raised"}
              /\ tasks_db[t].error_message = MsgInvalidImage)
             => /\ pc'[t] = pc[t]
                /\ hist'[t].attempts = hist[t].attempts
                /\ hist'[t].render_calls = hist[t].render_calls
                /\ active_tasks' = active_tasks]_vars

\* the first attempt's validation failed: failed at once, nothing acquired,
\* nothing rendered, no retry
C12_Witness ==
    \E t \in DOMAIN tasks_db :
        /\ tasks_db[t].status = "failed"
        /\ tasks_db[t].error_message = MsgInvalidImage
        /\ pc[t] = "done"
        /\ hist[t].attempts = 1
        /\ hist[t].render_calls = 0
        /\ tasks_db[t].retry_count = 0
        /\ tasks_db[t].retry_history = << >>
        /\ active_tasks = 0

\* C13: process_image_task never propagates an error to its caller: whatever
\* the validator, the arbiter, the Renderer, the webhook and the failure-path
\* file cleanup do, every invocation returns normally.
C13_NeverPropagates ==
    \A t \in Tasks : pc[t] # "raised"

\* C14: once cancel_task has marked cancelled a task that the executor had
\* started (it was processing, or pending in its backoff), the executor
\* starts no new attempt for it (no further acquire_gpu_slot, no further
\* Renderer call) and writes no further status.
C14_CancelObserved ==
    [][\A t \in DOMAIN tasks_db :
          (tasks_db[t].status = "cancelled" /\ hist[t].attempts >= 1)
          => /\ tasks_db'[t].status = "cancelled"
             /\ hist'[t].attempts = hist[t].attempts
             /\ hist'[t].render_calls = hist[t].render_calls
             /\ (pc[t] \notin {"rendering", "release"}
                 => active_tasks' = active_tasks)]_vars

\* C15: in every state a status query can see, a completed task has
\* progress 100 and a result_path, and a failed task has an error_message
\* and one retry_history entry for every retry it went through (as many as
\* retry_count).
C15_TerminalRecords ==
    \A t \in DOMAIN tasks_db :
        /\ tasks_db[t].status = "completed"
           => /\ tasks_db[t].progress = 100
              /\ tasks_db[t].result_path # "none"
        /\ tasks_db[t].status = "failed"
           => /\ tasks_db[t].error_message # << >>
              /\ Len(tasks_db[t].retry_history) = tasks_db[t].retry_count
              /\ Len(tasks_db[t].retry_history) = hist[t].attempts - 1
              /\ \A i \in DOMAIN tasks_db[t].retry_history :
                     tasks_db[t].retry_history[i].attempt = i

\* one task is completed, the other is failed after three retries
C15_Witness ==
    \E t \in DOMAIN tasks_db, u \in DOMAIN tasks_db :
        /\ tasks_db[t].status = "completed"
        /\ tasks_db[t].progress = 100
        /\ tasks_db[u].status = "failed"
        /\ tasks_db[u].retry_count = DefaultMaxRetries
        /\ Len(tasks_db[u].retry_history) = DefaultMaxRetries

\* C16: at any time at most one invocation of process_image_task is active
\* (started and not yet returned) for a task id, however many retries the
\* task has gone through.
C16_NoNesting ==
    \A t \in Tasks : frames[t] <= 1

\* C17: the webhook is posted at most once per task, and whether the POST
\* returns 2xx, returns non-2xx or fails in transport, the task record is
\* left as it was (status completed, retry_count unchanged) and the POST is
\* not repeated.
C17_WebhookBestEffort ==
    /\ [](\A t \in DOMAIN tasks_db :
             /\ Len(hist[t].webhook_posts) <= 1
             /\ (pc[t] = "webhook" \/ hist[t].webhook_posts # << >>)
                => /\ tasks_db[t].status = "completed"
                   /\ tasks_db[t].webhook_url)
    /\ [][\A t \in DOMAIN tasks_db :
             hist'[t].webhook_posts # hist[t].webhook_posts
             => /\ tasks_db'[t] = tasks_db[t]
                /\ pc'[t] = "done"
                /\ active_tasks' = active_tasks]_vars

\* the POST failed in transport after the task had gone through a retry;
\* the task is completed
C17_Witness ==
    \E t \in DOMAIN tasks_db :
        /\ hist[t].webhook_posts = <<"transport error">>
        /\ pc[t] = "done"
        /\ tasks_db[t].status = "completed"
        /\ tasks_db[t].retry_count = 1

\* the step is the answer to a request made to handler op
Answered(op) == resp'.parity # resp.parity /\ resp'.op = op

\* C18: cancel_task on a completed, failed or cancelled task is rejected
\* with task_not_cancellable and leaves the task record unchanged;
\* cancel_task on a pending or processing task sets its status to cancelled.
C18_CancelTask ==
    [][\A t \in DOMAIN tasks_db :
          (Answered("cancel_task") /\ resp'.task_id = t)
          => IF tasks_db[t].status \in {"completed", "failed", "cancelled"}
             THEN /\ resp'.error = "task_not_cancellable"
                  /\ tasks_db' = tasks_db
             ELSE /\ tasks_db[t].status \in {"pending", "processing"}
                  /\ resp'.error = ""
                  /\ tasks_db'[t] = [tasks_db[t] EXCEPT !.status = "cancelled"]
                  /\ \A u \in DOMAIN tasks_db \ {t} :
                         tasks_db'[u] = tasks_db[u]]_vars

\* a cancel of a failed task was rejected while the other task, cancelled
\* while processing, is cancelled
C18_Witness ==
    \E t \in DOMAIN tasks_db, u \in DOMAIN tasks_db :
        /\ resp.op = "cancel_task"
        /\ resp.task_id = t
        /\ resp.error = "task_not_cancellable"
        /\ tasks_db[t].status = "failed"
        /\ tasks_db[u].status = "cancelled"
        /\ hist[u].attempts = 1

\* the submitted file names whose extension is none of jpg, jpeg, png in any
\* letter case, the missing file name among them
InvalidNames ==
    {<< >>,
     <<"a", ".", "g", "i", "f">>,  \* a.gif
     <<"a", ".", "p", "n", "g", ".", "t", "x", "t">>,  \* a.png.txt
     <<"p", "n", "g">>,  \* png
     <<".", "p", "n", "g">>,  \* .png
     <<"a", ".">>}  \* a.

C21_RetryBookkeeping ==
    /\ [](\A t \in DOMAIN tasks_db :
             /\ tasks_db[t].retry_count = Len(tasks_db[t].retry_history)
             /\ tasks_db[t].retry_count <= DefaultMaxRetries
             /\ \A i \in DOMAIN tasks_db[t].retry_history :
                    tasks_db[t].retry_history[i].attempt = i)
    /\ [][\A t \in DOMAIN tasks_db :
             (\/ tasks_db'[t].retry_count # tasks_db[t].retry_count
              \/ tasks_db'[t].retry_history # tasks_db[t].retry_history
              \/ pc'[t] = "backoff" /\ pc[t] # "backoff")
             => /\ tasks_db'[t].retry_count = tasks_db[t].retry_count + 1
                /\ Len(tasks_db'[t].retry_history) =
                       Len(tasks_db[t].retry_history) + 1
                /\ SubSeq(tasks_db'[t].retry_history, 1,
                          Len(tasks_db[t].retry_history)) =
                       tasks_db[t].retry_history
                /\ tasks_db'[t].retry_history[tasks_db'[t].retry_count].attempt
                       = tasks_db'[t].retry_count
                /\ tasks_db'[t].status = "pending"
                /\ pc'[t] = "backoff"
                /\ delay'[t] = RetryDelay(tasks_db'[t].retry_count)]_vars

\* the third retry was recorded and the task waits in its backoff
C21_Witness ==
    \E t \in DOMAIN tasks_db :
        /\ pc[t] = "backoff"
        /\ tasks_db[t].status = "pending"
        /\ tasks_db[t].retry_count = DefaultMaxRetries
        /\ Len(tasks_db[t].retry_history) = DefaultMaxRetries
        /\ tasks_db[t].retry_history[DefaultMaxRetries].attempt =
               DefaultMaxRetries

\* msg ends with the tokens of reason
EndsWith(msg, reason) ==
    /\ Len(msg) > Len(reason)
    /\ SubSeq(msg, Len(msg) - Len(reason) + 1, Len(msg)) = reason

\* C22: a rejected acquire_gpu_slot (capacity reached, accelerator
\* unavailable, or insufficient memory) raises an error that carries the
\* reason and leaves active_tasks unchanged, and the executor treats it as
\* retryable: the task goes to its backoff while retry_count < max_retries
\* and becomes failed otherwise.
C22_RejectedAcquire ==
    [][\A t \in Tasks :
          (pc[t] = "check" /\ pc'[t] \notin {"check", "admitted"})
          => /\ ShouldRefuse
             /\ active_tasks' = active_tasks
             /\ hist'[t].render_calls = hist[t].render_calls
             /\ EndsWith(LastError(t)', RefusalReason)
             /\ RefusalReason \in {ReasonCapacity, ReasonUnavailable, ReasonMemory}
             /\ should_retry_error(LastError(t)')
             /\ IF tasks_db[t].retry_count < DefaultMaxRetries
                THEN /\ pc'[t] = "backoff"
                     /\ tasks_db'[t].status = "pending"
                     /\ tasks_db'[t].retry_count = tasks_db[t].retry_count + 1
                ELSE /\ pc'[t] \in {"done", "raised"}
                     /\ tasks_db'[t].status = "failed"
                     /\ tasks_db'[t].retry_count = DefaultMaxRetries]_vars

\* a task's acquire was rejected at the concurrency limit while the other
\* task held the only slot, and again, for the fourth time, after that:
\* the task is failed
C22_Witness ==
    \E t \in DOMAIN tasks_db, u \in DOMAIN tasks_db :
        /\ tasks_db[t].status = "failed"
        /\ EndsWith(tasks_db[t].error_message, ReasonCapacity)
        /\ hist[t].rejections = DefaultMaxRetries + 1
        /\ tasks_db[t].retry_count = DefaultMaxRetries
        /\ pc[u] = "rendering"
        /\ active_tasks = 1

\* C23: when every validator, probe, Renderer and webhook call returns and
\* every backoff elapses, a submitted task that is not cancelled eventually
\* has status completed or failed, and the Renderer is invoked for it at
\* most max_retries + 1 times.
C23_Termination ==
    /\ \A t \in Single :
           (t \in DOMAIN tasks_db)
               ~> (/\ t \in DOMAIN tasks_db
                   /\ tasks_db[t].status \in {"completed", "failed"}
                   /\ pc[t] \in {"done", "raised"})
    /\ [](\A t \in DOMAIN tasks_db :
             hist[t].render_calls <= DefaultMaxRetries + 1)

\* the Renderer failed max_retries + 1 times and the task is failed
C23_Witness ==
    \E t \in DOMAIN tasks_db :
        /\ tasks_db[t].status = "failed"
        /\ pc[t] \in {"done", "raised"}
        /\ hist[t].render_calls = DefaultMaxRetries + 1
        /\ hist[t].render_fails = DefaultMaxRetries + 1

\* C24: within one execution attempt of a task the progress values written
\* to the task record, in the order they are written (the executor's 10 and
\* 20, the Renderer's callbacks, the final 100), never decrease and lie in
\* 0..100.
C24_ProgressMonotone ==
    \A t \in DOMAIN tasks_db :
        LET w == hist[t].progress_writes
        IN  /\ \A i \in DOMAIN w : w[i] \in 0..100
            /\ \A i, j \in DOMAIN w : i <= j => w[i] <= w[j]

\* a step that is a call of is_gpu_available
ProbeCalled == probe'.parity # probe.parity

\* a slot was acquired since the latest call of is_gpu_available
AcquiredSinceProbe == SlotsAcquired(hist, Tasks) > probe.leases

\* the collaborator was queried and no more than 30 seconds have passed
CacheFresh ==
    /\ last_gpu_check # None
    /\ now - last_gpu_check[1] <= CacheSeconds

\* C25 as stated: the first is_gpu_available after a successful
\* acquire_gpu_slot queries the accelerator again, however recent the
\* previous query.
C25_AcquireInvalidates ==
    [][ProbeCalled /\ AcquiredSinceProbe => probe'.queried]_vars

\* C25: a successful acquire_gpu_slot leaves the cached availability and
\* its time of check as they are, so the first is_gpu_available after it
\* returns the cached value without querying the accelerator when the
\* previous query is no more than 30 seconds old, and queries it otherwise.
C25_AcquireKeepsCache ==
    /\ [][SlotsAcquired(hist', Tasks) > SlotsAcquired(hist, Tasks)
          => /\ active_tasks' = active_tasks + 1
             /\ UNCHANGED <<gpu_available, last_gpu_check>>]_vars
    /\ [][ProbeCalled /\ AcquiredSinceProbe
          => IF CacheFresh
             THEN /\ ~probe'.queried
                  /\ ret' = gpu_available
                  /\ UNCHANGED <<gpu_available, last_gpu_check>>
             ELSE /\ probe'.queried
                  /\ last_gpu_check' = <<now>>]_vars

\* the accelerator was queried at 0 s and found available, a slot was
\* acquired after that, the accelerator then became unavailable, and a call
\* at 30 s, during the guarded work, returned the cached True
C25_Witness ==
    /\ probe.since > 0
    /\ ~probe.queried
    /\ last_gpu_check = <<0>>
    /\ now = CacheSeconds
    /\ ret = <<TRUE>>
    /\ ~gpu_status.available
    /\ active_tasks = 1

RECURSIVE RetryCountOver(_, _)
\* sum of retry_count over the tasks of S
RetryCountOver(db, S) ==
    IF S = {} THEN 0
    ELSE LET t == CHOOSE x \in S : TRUE
         IN  db[t].retry_count + RetryCountOver(db, S \ {t})

\* the tasks whose status becomes status in this step
TransitionedTo(status) ==
    {t \in DOMAIN tasks_db' :
        /\ tasks_db'[t].status = status
        /\ (t \in DOMAIN tasks_db => tasks_db[t].status # status)}

\* C27: whatever the tasks do (retries, cancellations, failures),
\* task_stats.completed_tasks and the counter task_completed_count go up by
\* one exactly when a task becomes completed and are equal,
\* task_stats.retried_tasks and the counter task_retry_count both equal the
\* sum of retry_count over all tasks, and the counter task_failed_count goes
\* up by one exactly when a task becomes failed; all start at 0.
C27_Counters ==
    /\ [](/\ task_stats.completed_tasks = counters.task_completed_count
          /\ task_stats.retried_tasks = counters.task_retry_count
          /\ task_stats.retried_tasks =
                 RetryCountOver(tasks_db, DOMAIN tasks_db)
          /\ counters.task_completed_count =
                 Cardinality({t \in DOMAIN tasks_db :
                                 tasks_db[t].status = "completed"})
          /\ counters.task_failed_count =
                 Cardinality({t \in DOMAIN tasks_db :
                                 tasks_db[t].status = "failed"}))
    /\ [][/\ counters'.task_completed_count - counters.task_completed_count
                 = Cardinality(TransitionedTo("completed"))
          /\ counters'.task_failed_count - counters.task_failed_count
                 = Cardinality(TransitionedTo("failed"))
          /\ \A t \in DOMAIN tasks_db :
                 tasks_db[t].status \in {"completed", "failed"}
                 => tasks_db'[t].status = tasks_db[t].status]_vars

\* one task completed at its second attempt although it was cancelled,
\* the other failed after three retries
C27_Witness ==
    \E t \in DOMAIN tasks_db, u \in DOMAIN tasks_db :
        /\ tasks_db[t].status = "completed" /\ tasks_db[t].retry_count = 1
        /\ hist[t].cancelled
        /\ tasks_db[u].status = "failed"
        /\ tasks_db[u].retry_count = DefaultMaxRetries
        /\ task_stats.completed_tasks = 1
        /\ counters.task_failed_count = 1
        /\ counters.task_retry_count = DefaultMaxRetries + 1

Live(loops) == {i \in DOMAIN loops : loops[i] # "exited"}

\* C29: start_monitoring called while the supervisor is running changes
\* nothing: no monitoring loop and no cleanup loop is created.  A start
\* that finds it stopped creates one of each, so as long as no
\* stop_monitoring has intervened there is exactly one of each, however
\* many times start_monitoring is called.
C29_StartIdempotent ==
    /\ [][running /\ monitor_calls'.last_start # monitor_calls.last_start
          => /\ monitor_calls'.last_start = "returned"
             /\ UNCHANGED <<running, monitoring_loops, cleanup_loops>>]_vars
    /\ [][Len(monitoring_loops') # Len(monitoring_loops)
              \/ Len(cleanup_loops') # Len(cleanup_loops)
          => /\ ~running /\ running'
             /\ monitoring_loops' = Append(monitoring_loops, "test")
             /\ cleanup_loops' = Append(cleanup_loops, "test")]_vars
    /\ [](monitor_calls.last_start # "none" /\ monitor_calls.stops = 0
          => /\ running
             /\ Len(monitoring_loops) = 1 /\ Live(monitoring_loops) = {1}
             /\ Len(cleanup_loops) = 1 /\ Live(cleanup_loops) = {1})
    /\ [](/\ Len(monitoring_loops) = Len(cleanup_loops)
          /\ Len(monitoring_loops) <= monitor_calls.stops + 1)

\* start_monitoring was called again while both loops were in mid-cycle and
\* returned at once: there is still one loop of each kind
C29_Witness ==
    /\ monitor_calls.last_start = "returned"
    /\ monitor_calls.stops = 0
    /\ running
    /\ monitoring_loops = <<"checking">>
    /\ cleanup_loops = <<"cleaning">>

\* C30: a loop returns only at its loop test, and only when running is
\* False, so a health check or cleanup in progress, and the sleep after
\* it, run to their end; a cycle begins only while running is True, so
\* none begins after stop_monitoring unless start_monitoring is called
\* again; and once running is False every loop eventually returns, unless
\* start_monitoring is called again.
C30_StopDrains ==
    /\ [][\A i \in DOMAIN monitoring_loops :
             /\ (monitoring_loops'[i] = "exited"
                 /\ monitoring_loops[i] # "exited")
                => monitoring_loops[i] = "test" /\ ~running
             /\ monitoring_loops[i] = "checking"
                => monitoring_loops'[i] \in {"checking", "sleeping"}
             /\ monitoring_loops[i] = "sleeping"
                => monitoring_loops'[i] \in {"sleeping", "test"}
             /\ (monitoring_loops'[i] = "checking"
                 /\ monitoring_loops[i] # "checking")
                => monitoring_loops[i] = "test" /\ running
             /\ monitoring_loops[i] = "exited"
                => monitoring_loops'[i] = "exited"]_vars
    /\ [][\A i \in DOMAIN cleanup_loops :
             /\ (cleanup_loops'[i] = "exited"
                 /\ cleanup_loops[i] # "exited")
                => cleanup_loops[i] = "test" /\ ~running
             /\ cleanup_loops[i] = "cleaning"
                => cleanup_loops'[i] \in {"cleaning", "sleeping"}
             /\ cleanup_loops[i] = "sleeping"
                => cleanup_loops'[i] \in {"sleeping", "test"}
             /\ (cleanup_loops'[i] = "cleaning"
                 /\ cleanup_loops[i] # "cleaning")
                => cleanup_loops[i] = "test" /\ running
             /\ cleanup_loops[i] = "test" /\ cleanup_loops'[i] = "sleeping"
                => running
             /\ cleanup_loops[i] = "exited"
                => cleanup_loops'[i] = "exited"]_vars
    /\ ~running ~> (running \/ (Live(monitoring_loops) = {}
                                /\ Live(cleanup_loops) = {}))

\* stop_monitoring was called while a health check and a cleanup were in
\* progress; both ran on into their sleeps and have not returned yet
C30_Witness ==
    /\ ~running
    /\ monitor_calls.last_start = "spawned"
    /\ monitor_calls.stops = 1
    /\ monitoring_loops = <<"sleeping">>
    /\ cleanup_loops = <<"sleeping">>

\* C31: a failure inside a health check or a cleanup run (system probe,
\* accelerator probe, remediation, file deletion) never ends a loop: the
\* live loops are the same after it, a loop returns only when running is
\* False, and if the supervisor stays running a health check begins again
\* and again for ever.
C31_FailuresContained ==
    /\ [][\/ monitor_calls'.last_cycle # monitor_calls.last_cycle
          \/ \E i \in DOMAIN monitoring_loops :
                 monitoring_loops[i] = "checking"
                 /\ monitoring_loops'[i] # "checking"
          \/ \E i \in DOMAIN cleanup_loops :
                 cleanup_loops[i] = "cleaning" /\ cleanup_loops'[i] # "cleaning"
          => /\ Live(monitoring_loops') = Live(monitoring_loops)
             /\ Live(cleanup_loops') = Live(cleanup_loops)]_vars
    /\ [][Live(monitoring_loops) \ Live(monitoring_loops') # {}
              \/ Live(cleanup_loops) \ Live(cleanup_loops') # {}
          => ~running]_vars
    /\ (<>[]running =>
            []<>(\E i \in DOMAIN monitoring_loops :
                     monitoring_loops[i] = "checking"))

\* a probe raised in the latest health check, and the same loop has slept
\* and begun its next health check while the cleanup loop is in a run
C31_Witness ==
    /\ running
    /\ monitor_calls.last_cycle = <<"health check", "probe raised">>
    /\ monitor_calls.stops = 0
    /\ monitoring_loops = <<"checking">>
    /\ cleanup_loops = <<"cleaning">>

\* an issue of the unavailable/insufficient/too-high class
CriticalClass(issue) ==
    \E i \in DOMAIN issue :
        issue[i] \in {"zh:unavailable", "zh:insufficient", "zh:too high"}

\* C32: once _determine_overall_status has run on a list of issues, the
\* overall status is critical when some issue is of the critical class,
\* warning when the list is non-empty and no issue is of that class, and
\* healthy exactly when the list is empty
C32_OverallStatus ==
    cycle.determined =>
        LET issues == health_status.issues
            some_critical == \E k \in DOMAIN issues : CriticalClass(issues[k])
        IN  /\ some_critical => health_status.overall_status = "critical"
            /\ issues # << >> /\ ~some_critical
                   => health_status.overall_status = "warning"
            /\ health_status.overall_status = "healthy" <=> issues = << >>

C32_Witness ==
    /\ cycle.determined
    /\ health_status.issues = <<<<"zh:task", "zh:stuck">>,
                                <<"zh:warning", "zh:task">>>>
    /\ health_status.overall_status = "warning"

\* issue is in the issues list of health_status
Flagged(issue) ==
    \E k \in DOMAIN health_status.issues : health_status.issues[k] = issue

\* the six conditions of a health check, on the readings it took
CycleConditions ==
    <<health_status.cpu_usage > 90,
      health_status.memory_usage > 85,
      cycle.disk_percent > 90,
      ~health_status.gpu_available,
      health_status.gpu_available /\ health_status.gpu_memory_usage > 90,
      /\ health_status.gpu_available
      /\ health_status.gpu_temperature # None
      /\ health_status.gpu_temperature[1] > 85>>

\* C33: a health check that built its HealthStatus flags one issue for
\* each of CPU > 90, memory > 85, disk > 90, accelerator unavailable,
\* accelerator memory > 90 and accelerator temperature > 85 that holds (the
\* last two only with the accelerator available) and no other issue, and
\* its overall status is healthy if and only if none holds
C33_CycleFlags ==
    cycle.determined =>
        /\ Flagged(IssueCpu) <=> CycleConditions[1]
        /\ Flagged(IssueMemory) <=> CycleConditions[2]
        /\ Flagged(IssueDisk) <=> CycleConditions[3]
        /\ Flagged(IssueGpuUnavailable) <=> CycleConditions[4]
        /\ Flagged(IssueGpuMemory) <=> CycleConditions[5]
        /\ Flagged(IssueGpuTemperature) <=> CycleConditions[6]
        /\ Len(health_status.issues) =
               Cardinality({i \in 1..6 : CycleConditions[i]})
        /\ health_status.overall_status = "healthy"
               <=> \A i \in 1..6 : ~CycleConditions[i]

C33_Witness ==
    /\ cycle.determined
    /\ health_status.cpu_usage = 90
    /\ health_status.memory_usage = 86
    /\ cycle.disk_percent = 90
    /\ health_status.gpu_memory_usage = 90
    /\ health_status.gpu_temperature = <<86>>
    /\ health_status.issues = <<IssueMemory, IssueGpuTemperature>>
    /\ health_status.overall_status = "critical"

\* C34: a health check calls force_cleanup exactly when it flagged the
\* accelerator-memory issue, that is with the accelerator available and its
\* memory above 90%; every force_cleanup call returns normally, in a health
\* check or on its own, any number of times, and leaves active_tasks, the
\* task records and the rest of the GPUResourceManager as they were
C34_ForceCleanup ==
    /\ [][cycle'.checks # cycle.checks
            => /\ cycle'.force_cleanups \in {0, 1}
               /\ cycle'.force_cleanups = 1
                      <=> /\ cycle'.determined
                          /\ \E k \in DOMAIN health_status'.issues :
                                 health_status'.issues[k] = IssueGpuMemory
               /\ cycle'.force_cleanups = 1
                      <=> /\ cycle'.determined
                          /\ health_status'.gpu_available
                          /\ health_status'.gpu_memory_usage > 90
               /\ UNCHANGED <<active_tasks, tasks_db, max_concurrent_tasks,
                              gpu_available, last_gpu_check>>]_vars
    /\ [][cycle'.force_cleanups # cycle.force_cleanups
            /\ cycle'.checks = cycle.checks
            => /\ cycle'.force_cleanups = cycle.force_cleanups + 1
               /\ UNCHANGED <<active_tasks, tasks_db, max_concurrent_tasks,
                              gpu_available, last_gpu_check,
                              health_status>>]_vars

C34_Witness ==
    /\ cycle.determined
    /\ cycle.force_cleanups = 2
    /\ health_status.gpu_memory_usage = 91
    /\ active_tasks = 1
    /\ "t1" \in DOMAIN tasks_db
    /\ tasks_db["t1"].status = "processing"

\* C35: a cleanup run starts only when more than cleanup_interval has
\* elapsed since last_cleanup and sets last_cleanup to the time of the run;
\* it deletes every upload older than 24 h and every output older than 48 h,
\* deletes no younger file, and calls force_cleanup; outside a run no file
\* is deleted and last_cleanup stays
C35_CleanupRun ==
    [][IF cleanup_run'.runs # cleanup_run.runs
       THEN /\ now - last_cleanup > 600
            /\ last_cleanup' = now
            /\ \A f \in DOMAIN files :
                   LET age == now - files[f]
                       old == IF f \in Uploads THEN age > 24 * 3600
                              ELSE age > 48 * 3600
                   IN  f \in DOMAIN files' <=> ~old
            /\ cleanup_run'.force_cleanups = 1
       ELSE UNCHANGED <<files, last_cleanup>>]_vars

\* C36: a task whose status is pending, completed or failed is not between
\* the increment and the decrement of acquire_gpu_slot, and the leases held
\* are no more than the tasks in another status: a task whose invocation
\* sends its webhook or waits for its retry occupies no slot
C36_NoLeaseOutsideAttempt ==
    /\ \A t \in DOMAIN tasks_db :
           tasks_db[t].status \in {"pending", "completed", "failed"}
               => pc[t] \notin {"rendering", "release"}
    /\ \A t \in Tasks :
           pc[t] \in {"webhook", "backoff"}
               => /\ tasks_db[t].status # "processing"
                  /\ active_tasks <= Cardinality(Tasks \ {t})
    /\ active_tasks <=
           Cardinality({t \in DOMAIN tasks_db :
                           tasks_db[t].status \notin
                               {"pending", "completed", "failed"}})

C36_Witness ==
    /\ pc["t1"] = "backoff"
    /\ tasks_db["t1"].status = "pending"
    /\ hist["t1"].render_fails = 1
    /\ pc["t2"] = "rendering"
    /\ active_tasks = 1
    /\ max_concurrent_tasks = 1

\* C37: at most one _monitoring_loop and at most one _cleanup_loop are
\* live at any time, whatever start_monitoring and stop_monitoring calls
\* were made
C37_OneLoopEach ==
    /\ Cardinality(Live(monitoring_loops)) <= 1
    /\ Cardinality(Live(cleanup_loops)) <= 1

\* C38: the stop_timer of a wrapper invocation finds the timer in
\* performance_timers, holding the time at which this invocation called
\* start_timer, and returns the time passed since then
C38_OwnTimer ==
    [][\A t \in Tasks :
           \A i \in DOMAIN invocations[t] :
               invocations[t][i].state = "running"
               /\ invocations'[t][i].state # "running"
               => /\ OperationTimer \in DOMAIN ms.performance_timers
                  /\ ms.performance_timers[OperationTimer] =
                         invocations[t][i].started
                  /\ ret' = <<now - invocations[t][i].started>>]_vars

\* C39: whatever the recorder was asked to record, total_tasks is 0 and the
\* health tag of get_metrics_summary is "unknown"; no operation changes
\* total_tasks
C39_TotalTasksNeverCounted ==
    /\ [](ms.task_stats.total_tasks = 0)
    /\ [](get_metrics_summary(ms).system_health = "unknown")
    /\ [][ms'.task_stats.total_tasks = ms.task_stats.total_tasks]_vars

C39_Witness ==
    /\ ms.task_stats.completed_tasks = 1
    /\ ms.task_stats.failed_tasks = 2
    /\ ms.task_stats.total_tasks = 0
    /\ get_metrics_summary(ms).system_health = "unknown"

\* the attempts of task t that ended in the except block: those started,
\* less the one under way and the one that completed the task
FailedAttempts(t) ==
    hist[t].attempts
    - (IF pc[t] \in {"validating", "check", "admitted", "rendering", "release"}
       THEN 1 ELSE 0)
    - (IF t \in DOMAIN tasks_db /\ tasks_db[t].status = "completed"
       THEN 1 ELSE 0)

RECURSIVE FailedAttemptsOver(_)
\* sum of FailedAttempts over the tasks of S
FailedAttemptsOver(S) ==
    IF S = {} THEN 0
    ELSE LET t == CHOOSE x \in S : TRUE
         IN  FailedAttempts(t) + FailedAttemptsOver(S \ {t})

\* C40: task_stats.failed_tasks is the number of failed attempts, the
\* retried ones included, each of which called record_error with the task
\* id once: the retries made plus the tasks that failed for good, hence at
\* least the number of tasks in status failed; the record_error calls made
\* without a task id, by the wrappers an exception passes through, add
\* nothing
C40_FailedAttemptsCounted ==
    /\ [](task_stats.failed_tasks = FailedAttemptsOver(Tasks))
    /\ [](task_stats.failed_tasks =
              RetryCountOver(tasks_db, DOMAIN tasks_db)
              + Cardinality({t \in DOMAIN tasks_db :
                                tasks_db[t].status = "failed"}))
    /\ [](task_stats.failed_tasks >=
              Cardinality({t \in DOMAIN tasks_db :
                              tasks_db[t].status = "failed"}))
    /\ [][\A t \in Tasks :
              pc'[t] = "raised" /\ pc[t] # "raised"
              => task_stats'.failed_tasks = task_stats.failed_tasks + 1]_vars

\* t1 failed for good at its fourth attempt and the exception of
\* os.listdir left every wrapper; t2 is waiting for its first retry
C40_Witness ==
    /\ pc["t1"] = "raised"
    /\ tasks_db["t1"].status = "failed"
    /\ hist["t1"].attempts = DefaultMaxRetries + 1
    /\ pc["t2"] = "backoff"
    /\ task_stats.failed_tasks = DefaultMaxRetries + 2

====
